---- MODULE Spec2Model ----
(***************************************************************************)
(* A model of the licai batch resolver.                                    *)
(*                                                                         *)
(* Part I  : the queue engine of src/index.ts (processProductQueue,        *)
(*           fetchProduct, performSearch, findExactMatch, orderResults).   *)
(* Part II : the AdaptiveRateLimiter of src/unnamed/part_001, with its     *)
(*           wait methods.                                                 *)
(* Part III: the SessionPool of src/unnamed/part_001, and the program of   *)
(*           part_001 that runs on it (main, fetchProductWithRetry,        *)
(*           fetchProduct, searchProducts, getApiCredentials).             *)
(* Part IV : the credential fetch of main in src/index.ts.                 *)
(* Part V  : the retry wrapper of src/unnamed/part_000                     *)
(*           (fetchProductWithRetry, fetchProduct, findBestMatch).         *)
(* Part VI : normalizeForComparison, findExactMatch and findBestMatch on   *)
(*           their own.                                                    *)
(* Part VII: getSession and waitForApiRequest of src/unnamed/part_001      *)
(*           split at their awaits, under callers whose calls overlap.     *)
(*                                                                         *)
(* A string is a sequence of characters; a character is a one-token        *)
(* string.  "FW(" and "FW)" stand for the full-width parentheses U+FF08    *)
(* and U+FF09, "LDQ" and "RDQ" for the curly double quotes U+201C and      *)
(* U+201D, "LSQ" and "RSQ" for the curly single quotes U+2018 and U+2019.  *)
(***************************************************************************)
EXTENDS Integers, Sequences, FiniteSets, TLC

VARIABLES
    productNames,   \* main: the input list, in input order
    queue,          \* ProductQueueItem[]: name, attemptCount, triedFullName, status
    results,        \* Map<string, ProductResult> filled by processProductQueue
    output,         \* ProductResult[] built by orderResults (<<>> until then)
    pc,             \* "start" before fetchCredentials, "loop" inside
                    \* processProductQueue, "done" after orderResults, "exit1"
                    \* after process.exit(1)
    credentials,    \* main: the value getApiCredentials returned
    calls,          \* history: per item, the searchProducts calls issued for it
    errs,           \* history: per item, the calls that ended in a transport error
    stored,         \* history: per item, the results its passes put into the map
    last,           \* history: the last scheduling pass (item, term, response seen, sleep)
    currentRequestDelay,    \* AdaptiveRateLimiter.currentRequestDelay
    currentCredentialDelay, \* AdaptiveRateLimiter.currentCredentialDelay
    recentSuccesses,        \* AdaptiveRateLimiter.recentSuccesses
    recentFailures,         \* AdaptiveRateLimiter.recentFailures
    sinceAdjustment,        \* Date.now() - lastAdjustmentTime, saturated at
                            \* MIN_ADJUSTMENT_INTERVAL_MS (all the limiter compares it with)
    maxSessions,    \* SessionPool.maxSessions
    sessions,       \* SessionPool.sessions
    currentIndex,   \* SessionPool.currentIndex
    handout,        \* history: getSession calls and credential fetches so far,
                    \* the session the last call returned, whether it fetched,
                    \* the pool positions handed out so far, in call order
    retry,          \* the retry-wrapper program of part_000: productNames, i
                    \* (1-based), attempt, waitMs, results, pc, csv
    retryLog,       \* history: per product, the fetchProduct calls, the search
                    \* calls, the backoff sleeps, whether its last attempt threw
    matcherIn,      \* the arguments of a Matcher call: str (the string or search
                    \* term) and candidates
    matcherOut,     \* what the call returned (called = FALSE before it)
    lastApiRequestTime,       \* AdaptiveRateLimiter.lastApiRequestTime: 0, or
                              \* "stamped" once a call has set it to Date.now()
    lastCredentialFetchTime,  \* AdaptiveRateLimiter.lastCredentialFetchTime, alike
    lastWait,       \* history: the last waitFor... call (class, delay read, age
                    \* of the previous stamp, sleep, time between the stamps)
    batch,          \* main of part_001: productNames, i (1-based), attempt,
                    \* phase of fetchProduct, results, pc
    batchLog,       \* history: of one product, the fetchProduct calls, the search
                    \* calls, the rate-limit responses, whether it was given up
                    \* (of the fetchProductWithRetry call running or just ended)
    lastSearch,     \* history: the last searchProducts call (headers sent,
                    \* response, what it reported to the rate limiter)
    inflight,       \* per caller of the pool: "idle", or "createNewSession"
                    \* while its getSession call is suspended in the credential
                    \* fetch
    waiters         \* callers inside waitForApiRequest: per caller the delay
                    \* and the age it read and the rest of its sleep; and the
                    \* time since lastApiRequestTime was stamped

queueVars == <<productNames, queue, results, output, pc, credentials, calls, errs,
               stored, last>>
rateVars == <<currentRequestDelay, currentCredentialDelay, recentSuccesses,
              recentFailures, sinceAdjustment>>
poolVars == <<maxSessions, sessions, currentIndex, handout, inflight>>
retryVars == <<retry, retryLog>>
matcherVars == <<matcherIn, matcherOut>>
waitVars == <<lastApiRequestTime, lastCredentialFetchTime, lastWait, waiters>>
batchVars == <<batch, batchLog, lastSearch>>
vars == <<queueVars, rateVars, poolVars, retryVars, matcherVars, waitVars, batchVars>>

(***************************************************************************)
(* Program constants                                                       *)
(***************************************************************************)
MAX_RETRY_ATTEMPTS == 5
FALLBACK_SEARCH_PREFIX_LENGTH == 8

(***************************************************************************)
(* Bounds of the model                                                     *)
(***************************************************************************)
MaxItems == 2        \* longest input list
MaxCandidates == 2   \* longest candidate list in one search response

(***************************************************************************)
(* Characters and strings                                                  *)
(***************************************************************************)
ParenChars == {"(", ")", "FW(", "FW)"}
QuoteChars == {"\"", "'"}
WhitespaceChars == {" ", "TAB"}

\* "A（B）": a query with full-width parentheses, shorter than the prefix length
QParen == <<"A", "FW(", "B", "FW)">>
\* "ABCDEFGHI": a query longer than the prefix length
QLong == <<"A", "B", "C", "D", "E", "F", "G", "H", "I">>
\* "A(B)": the half-width spelling a candidate may carry
NHalf == <<"A", "(", "B", ")">>

QueryNames == {QParen, QLong}

\* A missing prodRegCode in the JSON of a candidate
Undefined == "undefined"

Product(n, c) == [isNull |-> FALSE, prodName |-> n, prodRegCode |-> c]
\* JavaScript null: a null entry of a candidate list, or "no match"
NullProduct == [isNull |-> TRUE, prodName |-> <<>>, prodRegCode |-> ""]

Candidates ==
    { Product(NHalf, "X001"), Product(NHalf, Undefined),
      Product(QLong, "X003") }

RECURSIVE SeqsUpTo(_, _)
SeqsUpTo(S, n) ==
    IF n = 0 THEN {<<>>}
    ELSE LET shorter == SeqsUpTo(S, n - 1)
         IN  shorter \cup {Append(s, x) : s \in shorter, x \in S}

\* What one call of the search endpoint can yield: a transport error (fetch
\* rejects, a non-2xx status, an unparsable body) or a candidate list.
TransportError == [kind |-> "error", list |-> <<>>]

\* The candidate lists of one result page: no record is listed twice
CandidateLists ==
    {l \in SeqsUpTo(Candidates, MaxCandidates) :
        \A j, k \in 1..Len(l) : l[j] = l[k] => j = k}

Responses == {TransportError} \cup {[kind |-> "ok", list |-> l] : l \in CandidateLists}

Inputs == SeqsUpTo(QueryNames, MaxItems) \ {<<>>}

(***************************************************************************)
(* Matcher                                                                 *)
(***************************************************************************)
normalizeForComparison(str) ==
    LET notParen(c) == c \notin ParenChars
        notQuote(c) == c \notin QuoteChars
        notSpace(c) == c \notin WhitespaceChars
    IN  SelectSeq(SelectSeq(SelectSeq(str, notParen), notQuote), notSpace)

RECURSIVE findExactMatchFrom(_, _, _)
findExactMatchFrom(normalizedSearch, candidates, k) ==
    IF k > Len(candidates) THEN NullProduct
    ELSE IF candidates[k].isNull THEN findExactMatchFrom(normalizedSearch, candidates, k + 1)
    ELSE IF normalizedSearch = normalizeForComparison(candidates[k].prodName)
         THEN candidates[k]
         ELSE findExactMatchFrom(normalizedSearch, candidates, k + 1)

\* Mutant: the search term is compared as it is spelled
findExactMatchRawTerm(searchTerm, candidates) ==
    IF Len(candidates) = 0 THEN NullProduct
    ELSE findExactMatchFrom(searchTerm, candidates, 1)

findExactMatch(searchTerm, candidates) ==
    IF Len(candidates) = 0 THEN NullProduct
    ELSE findExactMatchFrom(normalizeForComparison(searchTerm), candidates, 1)

(***************************************************************************)
(* Queue engine: one scheduling pass                                       *)
(***************************************************************************)
Min(a, b) == IF a < b THEN a ELSE b

RECURSIVE Pow2(_)
Pow2(n) == IF n <= 0 THEN 1 ELSE 2 * Pow2(n - 1)

\* The result of a pass that committed nothing
NoResult == [prodName |-> <<>>, prodRegCode |-> "none"]

determineSearchTerm(item) ==
    IF ~item.triedFullName
    THEN item.name
    ELSE SubSeq(item.name, 1, Min(FALLBACK_SEARCH_PREFIX_LENGTH, Len(item.name)))

\* searchProducts throws on a failed call, else returns json.data?.list ?? []
searchProducts(searchTerm, response) ==
    IF response.kind = "error"
    THEN [threw |-> TRUE, list |-> <<>>]
    ELSE [threw |-> FALSE, list |-> response.list]

\* Mutant: an empty answer always raises the retry, also after the prefix search
performSearchAlwaysRetries(searchTerm, item, response) ==
    LET found == searchProducts(searchTerm, response)
    IN  IF found.threw \/ Len(found.list) = 0
        THEN [threw |-> TRUE,
              item |-> [item EXCEPT !.triedFullName = TRUE],
              results |-> <<>>]
        ELSE [threw |-> FALSE, item |-> item, results |-> found.list]

\* Mutant: an empty full-name answer does not raise the retry with the prefix
performSearchNoFallback(searchTerm, item, response) ==
    LET found == searchProducts(searchTerm, response)
    IN  IF found.threw
        THEN [threw |-> TRUE, item |-> item, results |-> <<>>]
        ELSE IF Len(found.list) = 0
        THEN [threw |-> FALSE,
              item |-> [item EXCEPT !.triedFullName = TRUE, !.status = "fail"],
              results |-> found.list]
        ELSE [threw |-> FALSE, item |-> item, results |-> found.list]

\* Mutant: a transport error restarts the progression from the full name
performSearchRestartsOnError(searchTerm, item, response) ==
    LET found == searchProducts(searchTerm, response)
    IN  IF found.threw
        THEN [threw |-> TRUE,
              item |-> [item EXCEPT !.triedFullName = FALSE],
              results |-> <<>>]
        ELSE IF Len(found.list) = 0
        THEN IF ~item.triedFullName
             THEN [threw |-> TRUE,
                   item |-> [item EXCEPT !.triedFullName = TRUE],
                   results |-> <<>>]
             ELSE [threw |-> FALSE,
                   item |-> [item EXCEPT !.status = "fail"],
                   results |-> found.list]
        ELSE [threw |-> FALSE, item |-> item, results |-> found.list]

performSearch(searchTerm, item, response) ==
    LET found == searchProducts(searchTerm, response)
    IN  IF found.threw
        THEN [threw |-> TRUE, item |-> item, results |-> <<>>]
        ELSE IF Len(found.list) = 0
        THEN IF ~item.triedFullName
             THEN [threw |-> TRUE,
                   item |-> [item EXCEPT !.triedFullName = TRUE],
                   results |-> <<>>]
             ELSE [threw |-> FALSE,
                   item |-> [item EXCEPT !.status = "fail"],
                   results |-> found.list]
        ELSE [threw |-> FALSE, item |-> item, results |-> found.list]

\* Mutant: a single result is accepted directly
findProductMatchAcceptsSingle(results_, item) ==
    IF Len(results_) = 0 THEN NullProduct
    ELSE IF Len(results_) = 1 THEN results_[1]
    ELSE findExactMatch(item.name, results_)

findProductMatch(results_, item) ==
    IF Len(results_) = 0 THEN NullProduct ELSE findExactMatch(item.name, results_)

\* Mutant: the row of a resolved item is named after the search term
fetchProductNamesSearchTerm(item, response) ==
    LET counted == [item EXCEPT !.attemptCount = @ + 1]
        searchTerm == determineSearchTerm(counted)
        searched == performSearch(searchTerm, counted, response)
        match == findProductMatch(searched.results, searched.item)
    IN  IF searched.threw
        THEN [threw |-> TRUE, item |-> searched.item, result |-> NoResult,
              searchTerm |-> searchTerm]
        ELSE IF match.isNull
        THEN [threw |-> FALSE,
              item |-> [searched.item EXCEPT !.status = "fail"],
              result |-> [prodName |-> item.name, prodRegCode |-> ""],
              searchTerm |-> searchTerm]
        ELSE [threw |-> FALSE,
              item |-> [searched.item EXCEPT !.status = "success"],
              result |-> [prodName |-> searchTerm,
                          prodRegCode |-> IF match.prodRegCode = Undefined
                                          THEN "" ELSE match.prodRegCode],
              searchTerm |-> searchTerm]

fetchProduct(item, response) ==
    LET counted == [item EXCEPT !.attemptCount = @ + 1]
        searchTerm == determineSearchTerm(counted)
        searched == performSearch(searchTerm, counted, response)
        match == findProductMatch(searched.results, searched.item)
    IN  IF searched.threw
        THEN [threw |-> TRUE, item |-> searched.item, result |-> NoResult,
              searchTerm |-> searchTerm]
        ELSE IF match.isNull
        THEN [threw |-> FALSE,
              item |-> [searched.item EXCEPT !.status = "fail"],
              result |-> [prodName |-> item.name, prodRegCode |-> ""],
              searchTerm |-> searchTerm]
        ELSE [threw |-> FALSE,
              item |-> [searched.item EXCEPT !.status = "success"],
              result |-> [prodName |-> match.prodName,
                          prodRegCode |-> IF match.prodRegCode = Undefined
                                          THEN "" ELSE match.prodRegCode],
              searchTerm |-> searchTerm]

\* Mutant: the budget test is > instead of >=
onFetchErrorOffByOne(item) ==
    IF item.attemptCount > MAX_RETRY_ATTEMPTS
    THEN [item |-> [item EXCEPT !.status = "fail"], commit |-> TRUE,
          result |-> [prodName |-> item.name, prodRegCode |-> ""],
          backoffMs |-> 0]
    ELSE [item |-> item, commit |-> FALSE, result |-> NoResult,
          backoffMs |-> 1000 * Pow2(item.attemptCount - 1)]

\* Mutant: the item is given up without a result being put into the map
onFetchErrorNoRecord(item) ==
    IF item.attemptCount >= MAX_RETRY_ATTEMPTS
    THEN [item |-> [item EXCEPT !.status = "fail"], commit |-> FALSE,
          result |-> NoResult, backoffMs |-> 0]
    ELSE [item |-> item, commit |-> FALSE, result |-> NoResult,
          backoffMs |-> 1000 * Pow2(item.attemptCount - 1)]

\* The catch block of processProductQueue
onFetchError(item) ==
    IF item.attemptCount >= MAX_RETRY_ATTEMPTS
    THEN [item |-> [item EXCEPT !.status = "fail"], commit |-> TRUE,
          result |-> [prodName |-> item.name, prodRegCode |-> ""],
          backoffMs |-> 0]
    ELSE [item |-> item, commit |-> FALSE, result |-> NoResult,
          backoffMs |-> 1000 * Pow2(item.attemptCount - 1)]

\* Mutant: the catch block counts the attempt a second time
tryFetchCountsTwice(item, response) ==
    LET fetched == fetchProduct(item, response)
    IN  IF fetched.threw
        THEN onFetchError([fetched.item EXCEPT !.attemptCount = @ + 1])
        ELSE [item |-> fetched.item, commit |-> TRUE, result |-> fetched.result,
              backoffMs |-> 0]

\* Mutant: an empty full-name answer is not counted and not followed by a sleep
tryFetchFreeFallback(item, response) ==
    LET fetched == fetchProduct(item, response)
    IN  IF fetched.threw /\ fetched.item.triedFullName /\ ~item.triedFullName
        THEN [item |-> [fetched.item EXCEPT !.attemptCount = @ - 1],
              commit |-> FALSE, result |-> NoResult, backoffMs |-> 0]
        ELSE IF fetched.threw
        THEN onFetchError(fetched.item)
        ELSE [item |-> fetched.item, commit |-> TRUE, result |-> fetched.result,
              backoffMs |-> 0]

\* The body of the while loop for the selected item: try fetchProduct, catch
tryFetch(item, response) ==
    LET fetched == fetchProduct(item, response)
    IN  IF fetched.threw
        THEN onFetchError(fetched.item)
        ELSE [item |-> fetched.item, commit |-> TRUE, result |-> fetched.result,
              backoffMs |-> 0]

\* Mutant: the last pending item is selected
findPendingLast(q) ==
    LET pending == {i \in 1..Len(q) : q[i].status = "pending"}
    IN  IF pending = {} THEN 0
        ELSE CHOOSE i \in pending : \A j \in pending : i >= j

\* queue.find(item => item.status === "pending")
findPending(q) ==
    LET pending == {i \in 1..Len(q) : q[i].status = "pending"}
    IN  IF pending = {} THEN 0
        ELSE CHOOSE i \in pending : \A j \in pending : i <= j

\* results.set(key, value)
mapSet(m, key, value) ==
    [k \in (DOMAIN m) \cup {key} |-> IF k = key THEN value ELSE m[k]]

\* Mutant: the items start with attemptCount 1
initializeQueueFromOne(names) ==
    [i \in 1..Len(names) |->
        [name |-> names[i], attemptCount |-> 1, triedFullName |-> FALSE,
         status |-> "pending"]]

initializeQueue(names) ==
    [i \in 1..Len(names) |->
        [name |-> names[i], attemptCount |-> 0, triedFullName |-> FALSE,
         status |-> "pending"]]

\* Mutant: only the rows with a code are emitted
orderResultsDropsEmpty(names, resultsMap) ==
    LET hasCode(i) == names[i] \in DOMAIN resultsMap /\ resultsMap[names[i]].prodRegCode # ""
        RECURSIVE rows(_)
        rows(i) == IF i > Len(names) THEN <<>>
                   ELSE IF hasCode(i) THEN <<resultsMap[names[i]]>> \o rows(i + 1)
                   ELSE rows(i + 1)
    IN  rows(1)

orderResults(names, resultsMap) ==
    [i \in 1..Len(names) |->
        IF names[i] \in DOMAIN resultsMap
        THEN resultsMap[names[i]]
        ELSE [prodName |-> names[i], prodRegCode |-> ""]]

\* countResults: the rows with a code, and the rows without
countResults(rows) ==
    LET withCode == {i \in 1..Len(rows) : rows[i].prodRegCode # ""}
    IN  [successCount |-> Cardinality(withCode),
         failedCount |-> Len(rows) - Cardinality(withCode)]

\* printSummary: queue.filter(item => item.status === status).length
countStatus(q, status) == Cardinality({i \in 1..Len(q) : q[i].status = status})

\* What the claims read of a search response: whether the call failed, how many
\* candidates came back, and the first candidate in response order whose
\* normalized name equals the normalized query (NullProduct when there is none)
ExactIndexes(name, list) ==
    {k \in 1..Len(list) :
        /\ ~list[k].isNull
        /\ normalizeForComparison(list[k].prodName) = normalizeForComparison(name)}

FirstExact(name, list) ==
    LET hits == ExactIndexes(name, list)
    IN  IF hits = {} THEN NullProduct
        ELSE list[CHOOSE k \in hits : \A j \in hits : k <= j]

Observed(name, response) ==
    [kind |-> response.kind, count |-> Len(response.list),
     firstExact |-> FirstExact(name, response.list)]

NoPass == [idx |-> 0, searchTerm |-> <<>>, viaPrefix |-> FALSE,
           seen |-> [kind |-> "none", count |-> 0, firstExact |-> NullProduct],
           backoffMs |-> 0]

\* JavaScript null
Null == "null"

\* What getApiCredentials can return: the key and the cookie of the init
\* response, each null when the response lacks it or the call failed
ApiCredentials ==
    {[publicKey |-> k, cookie |-> c] : k \in {"KEY", Null}, c \in {"COOKIE", Null}}

\* No init call was made yet
NoCredentials == [publicKey |-> Null, cookie |-> Null]

\* The credentials of a well-formed init response
ValidCredentials == [publicKey |-> "KEY", cookie |-> "COOKIE"]

\* The state in which main calls processProductQueue
InitQueue ==
    /\ productNames \in Inputs
    /\ credentials = ValidCredentials
    /\ queue = initializeQueue(productNames)
    /\ results = <<>>
    /\ output = <<>>
    /\ pc = "loop"
    /\ calls = [i \in 1..Len(productNames) |-> 0]
    /\ errs = [i \in 1..Len(productNames) |-> 0]
    /\ stored = [i \in 1..Len(productNames) |-> <<>>]
    /\ last = NoPass

\* One iteration of the while loop that finds a pending item
ProcessPending ==
    /\ pc = "loop"
    /\ findPending(queue) # 0
    /\ \E response \in Responses :
         LET i == findPending(queue)
             pass == tryFetch(queue[i], response)
         IN  /\ queue' = [queue EXCEPT ![i] = pass.item]
             /\ results' = IF pass.commit
                           THEN mapSet(results, queue[i].name, pass.result)
                           ELSE results
             /\ calls' = [calls EXCEPT ![i] = @ + 1]
             /\ errs' = [errs EXCEPT ![i] = IF response.kind = "error" THEN @ + 1 ELSE @]
             /\ stored' = [stored EXCEPT ![i] = IF pass.commit
                                                THEN Append(@, pass.result) ELSE @]
             /\ last' = [idx |-> i,
                         viaPrefix |-> queue[i].triedFullName,
                         searchTerm |-> determineSearchTerm(
                                            [queue[i] EXCEPT !.attemptCount = @ + 1]),
                         seen |-> Observed(queue[i].name, response),
                         backoffMs |-> pass.backoffMs]
    /\ UNCHANGED <<productNames, output, pc, credentials>>

\* The iteration that finds no pending item: break, then main orders the results
QueueDrained ==
    /\ pc = "loop"
    /\ findPending(queue) = 0
    /\ pc' = "done"
    /\ output' = orderResults(productNames, results)
    /\ UNCHANGED <<productNames, queue, results, credentials, calls, errs, stored, last>>

\* main before the queue: loadProductNames has returned the input list
InitMain ==
    /\ productNames \in Inputs
    /\ credentials = NoCredentials
    /\ queue = <<>>
    /\ results = <<>>
    /\ output = <<>>
    /\ pc = "start"
    /\ calls = [i \in 1..Len(productNames) |-> 0]
    /\ errs = [i \in 1..Len(productNames) |-> 0]
    /\ stored = [i \in 1..Len(productNames) |-> <<>>]
    /\ last = NoPass

\* fetchCredentials, and on its return initializeQueue and new Map
fetchCredentials ==
    /\ pc = "start"
    /\ \E fetched \in ApiCredentials :
         /\ credentials' = fetched
         /\ IF fetched.publicKey = Null \/ fetched.cookie = Null
            THEN /\ pc' = "exit1"
                 /\ UNCHANGED queue
            ELSE /\ pc' = "loop"
                 /\ queue' = initializeQueue(productNames)
    /\ UNCHANGED <<productNames, results, output, calls, errs, stored, last>>

(***************************************************************************)
(* AdaptiveRateLimiter (src/unnamed/part_001)                              *)
(***************************************************************************)
CREDENTIAL_FETCH_COOLDOWN_MS == 1000
GLOBAL_REQUEST_COOLDOWN_MS == 1000
ADAPTATION_WINDOW == 10
MIN_ADJUSTMENT_INTERVAL_MS == 15000
MIN_REQUEST_DELAY == 500
MAX_REQUEST_DELAY == 5000
MIN_CREDENTIAL_DELAY == 1000
MAX_CREDENTIAL_DELAY == 10000
\* SPEEDUP_FACTOR = 0.95 and BACKOFF_FACTOR = 1.5, in hundredths
SPEEDUP_FACTOR_PCT == 95
BACKOFF_FACTOR_PCT == 150

MaxSuccesses == 11   \* cap of recentSuccesses
MaxFailures == 2     \* cap of recentFailures

\* One clock tick: a third of the adjustment interval
TickMs == MIN_ADJUSTMENT_INTERVAL_MS \div 3

Max(a, b) == IF a > b THEN a ELSE b

\* Math.round(delay * pct / 100): the nearest integer, halves upwards
roundScaled(delay, pct) == (2 * delay * pct + 100) \div 200

\* Math.max(MIN_REQUEST_DELAY, Math.round(currentRequestDelay * SPEEDUP_FACTOR))
speedUp(delay) == Max(MIN_REQUEST_DELAY, roundScaled(delay, SPEEDUP_FACTOR_PCT))

\* Mutant: the backoff is not clamped to the ceiling
backOffUnclamped(delay, maxDelay) == roundScaled(delay, BACKOFF_FACTOR_PCT)

\* Math.min(maxDelay, Math.round(delay * BACKOFF_FACTOR))
backOff(delay, maxDelay) == Min(maxDelay, roundScaled(delay, BACKOFF_FACTOR_PCT))

\* lastAdjustmentTime = 0 at construction, and Date.now() is far beyond 15 s
InitRate ==
    /\ currentRequestDelay = GLOBAL_REQUEST_COOLDOWN_MS
    /\ currentCredentialDelay = CREDENTIAL_FETCH_COOLDOWN_MS
    /\ recentSuccesses = 0
    /\ recentFailures = 0
    /\ sinceAdjustment = MIN_ADJUSTMENT_INTERVAL_MS

\* Mutant: either condition of the gate is enough to speed up
reportSuccessEitherGate ==
    LET counted == recentSuccesses + 1
        adjust == \/ counted >= ADAPTATION_WINDOW
                  \/ sinceAdjustment >= MIN_ADJUSTMENT_INTERVAL_MS
    IN  /\ adjust \/ counted <= MaxSuccesses
        /\ recentFailures' = Max(0, recentFailures - 1)
        /\ IF adjust
           THEN /\ recentSuccesses' = 0
                /\ sinceAdjustment' = 0
                /\ currentRequestDelay' = speedUp(currentRequestDelay)
           ELSE /\ recentSuccesses' = counted
                /\ UNCHANGED <<sinceAdjustment, currentRequestDelay>>
        /\ UNCHANGED currentCredentialDelay

\* Mutant: the speed-up lowers the credential-fetch delay as well
reportSuccessLowersBoth ==
    LET counted == recentSuccesses + 1
        adjust == /\ counted >= ADAPTATION_WINDOW
                  /\ sinceAdjustment >= MIN_ADJUSTMENT_INTERVAL_MS
    IN  /\ recentFailures' = Max(0, recentFailures - 1)
        /\ IF adjust
           THEN /\ recentSuccesses' = 0
                /\ sinceAdjustment' = 0
                /\ currentRequestDelay' = speedUp(currentRequestDelay)
                /\ currentCredentialDelay' =
                      Max(MIN_CREDENTIAL_DELAY,
                          roundScaled(currentCredentialDelay, SPEEDUP_FACTOR_PCT))
           ELSE /\ recentSuccesses' = counted
                /\ UNCHANGED <<sinceAdjustment, currentRequestDelay,
                               currentCredentialDelay>>

reportSuccess ==
    LET counted == recentSuccesses + 1
        adjust == /\ counted >= ADAPTATION_WINDOW
                  /\ sinceAdjustment >= MIN_ADJUSTMENT_INTERVAL_MS
    IN  /\ recentFailures' = Max(0, recentFailures - 1)
        /\ IF adjust
           THEN /\ recentSuccesses' = 0
                /\ sinceAdjustment' = 0
                /\ currentRequestDelay' = speedUp(currentRequestDelay)
           ELSE /\ recentSuccesses' = counted
                /\ UNCHANGED <<sinceAdjustment, currentRequestDelay>>
        /\ UNCHANGED currentCredentialDelay

\* Mutant: the backoff waits for the adjustment interval like the speed-up does
reportRateLimitGated ==
    /\ recentFailures < MaxFailures
    /\ recentFailures' = recentFailures + 1
    /\ recentSuccesses' = 0
    /\ sinceAdjustment' = 0
    /\ currentRequestDelay' =
          IF sinceAdjustment >= MIN_ADJUSTMENT_INTERVAL_MS
          THEN backOff(currentRequestDelay, MAX_REQUEST_DELAY)
          ELSE currentRequestDelay
    /\ currentCredentialDelay' = backOff(currentCredentialDelay, MAX_CREDENTIAL_DELAY)

reportRateLimit ==
    /\ recentFailures' = recentFailures + 1
    /\ recentSuccesses' = 0
    /\ sinceAdjustment' = 0
    /\ currentRequestDelay' = backOff(currentRequestDelay, MAX_REQUEST_DELAY)
    /\ currentCredentialDelay' = backOff(currentCredentialDelay, MAX_CREDENTIAL_DELAY)

\* The limiter on its own is explored while its counters are within the bounds
SuccessCountable ==
    \/ recentSuccesses < MaxSuccesses
    \/ /\ recentSuccesses + 1 >= ADAPTATION_WINDOW
       /\ sinceAdjustment >= MIN_ADJUSTMENT_INTERVAL_MS

FailureCountable == recentFailures < MaxFailures

\* Time passes, between two calls or while a call sleeps or awaits a response
AdvanceClock ==
    /\ sinceAdjustment < MIN_ADJUSTMENT_INTERVAL_MS
    /\ sinceAdjustment' = Min(MIN_ADJUSTMENT_INTERVAL_MS, sinceAdjustment + TickMs)
    /\ UNCHANGED <<currentRequestDelay, currentCredentialDelay, recentSuccesses,
                   recentFailures>>

\* A time stamp other than 0: some value of Date.now()
Stamped == 1

NoWait == [class |-> "none", first |-> FALSE, delay |-> 0, age |-> 0, slept |-> 0,
           gap |-> 0]

MaxWaiters == 2   \* most calls inside waitForApiRequest at a time
WaitCallers == 1..MaxWaiters

\* The step of the clock while calls sleep, and the age from which on a stamp
\* is older than any delay reached
SleepTickMs == MIN_REQUEST_DELAY \div 2
OldStampMs == MAX_REQUEST_DELAY

NotWaiting == [pc |-> "idle", delay |-> 0, age |-> 0, slept |-> 0, remaining |-> 0]

NoWaiters == [since |-> 0, of |-> [c \in WaitCallers |-> NotWaiting]]

\* No wait call was made yet
IdleWait ==
    /\ lastApiRequestTime = 0
    /\ lastCredentialFetchTime = 0
    /\ lastWait = NoWait
    /\ waiters = NoWaiters

\* now - last...Time at the start of a wait call, when a stamp exists: the
\* caller comes right away, halfway through the delay, exactly at its end, or
\* long after it
AgeSamples(lastTime, currentDelay) ==
    IF lastTime = 0 THEN {0}
    ELSE {0, currentDelay \div 2, currentDelay, 2 * currentDelay}

\* Mutant: the wait is computed with the operands exchanged
sleepTimeExchanged(currentDelay, lastTime, timeSinceLast) ==
    LET waitTime == timeSinceLast - currentDelay
    IN  IF lastTime > 0 /\ waitTime > 0 THEN waitTime ELSE 0

\* waitTime = currentDelay - timeSinceLast; delay(waitTime) is awaited only if
\* a stamp exists and waitTime > 0.  The result is the time slept.
sleepTime(currentDelay, lastTime, timeSinceLast) ==
    LET waitTime == currentDelay - timeSinceLast
    IN  IF lastTime > 0 /\ waitTime > 0 THEN waitTime ELSE 0

\* The record of a wait call; gap is the time from the previous stamp to the
\* stamp of this call (at least age + slept, as delay() returns no earlier)
waitRecord(class, currentDelay, lastTime, age) ==
    LET slept == sleepTime(currentDelay, lastTime, age)
    IN  [class |-> class, first |-> lastTime = 0, delay |-> currentDelay,
         age |-> age, slept |-> slept,
         gap |-> IF lastTime = 0 THEN 0 ELSE age + slept]

waitForCredentialFetch ==
    \E age \in AgeSamples(lastCredentialFetchTime, currentCredentialDelay) :
        /\ lastWait' = waitRecord("credential", currentCredentialDelay,
                                  lastCredentialFetchTime, age)
        /\ lastCredentialFetchTime' = Stamped
        /\ UNCHANGED <<lastApiRequestTime, waiters, rateVars>>

waitForApiRequest ==
    \E age \in AgeSamples(lastApiRequestTime, currentRequestDelay) :
        /\ lastWait' = waitRecord("api", currentRequestDelay, lastApiRequestTime, age)
        /\ lastApiRequestTime' = Stamped
        /\ UNCHANGED <<lastCredentialFetchTime, waiters, rateVars>>

\* Caller c calls waitForApiRequest while other calls may sleep in it: it
\* reads the clock, the stamp and the delay; with nothing to wait for it
\* stamps and returns, else it is suspended at await delay(waitTime)
enterWaitForApiRequest(c) ==
    LET age == waiters.since
        slept == sleepTime(currentRequestDelay, lastApiRequestTime, age)
    IN  /\ waiters.of[c].pc = "idle"
        /\ IF slept = 0
           THEN /\ lastWait' = [class |-> "api", first |-> lastApiRequestTime = 0,
                                delay |-> currentRequestDelay, age |-> age, slept |-> 0,
                                gap |-> IF lastApiRequestTime = 0 THEN 0 ELSE age]
                /\ lastApiRequestTime' = Stamped
                /\ waiters' = [waiters EXCEPT !.since = 0]
           ELSE /\ waiters' = [waiters EXCEPT !.of[c] =
                                  [pc |-> "sleeping", delay |-> currentRequestDelay,
                                   age |-> age, slept |-> slept, remaining |-> slept]]
                /\ UNCHANGED <<lastWait, lastApiRequestTime>>
        /\ UNCHANGED <<lastCredentialFetchTime, rateVars>>

\* The sleep of caller c is over: lastApiRequestTime = Date.now(), return
leaveWaitForApiRequest(c) ==
    /\ waiters.of[c].pc = "sleeping"
    /\ waiters.of[c].remaining = 0
    /\ lastWait' = [class |-> "api", first |-> FALSE, delay |-> waiters.of[c].delay,
                    age |-> waiters.of[c].age, slept |-> waiters.of[c].slept,
                    gap |-> waiters.since]
    /\ lastApiRequestTime' = Stamped
    /\ waiters' = [waiters EXCEPT !.since = 0, !.of[c] = NotWaiting]
    /\ UNCHANGED <<lastCredentialFetchTime, rateVars>>

\* The time to the next timer that is due, at most one tick
NextSleepStep ==
    LET rests == {waiters.of[c].remaining : c \in {d \in WaitCallers :
                                                      waiters.of[d].pc = "sleeping"}}
        short == {r \in rests : r < SleepTickMs}
    IN  IF short = {} THEN SleepTickMs
        ELSE CHOOSE r \in short : \A q \in short : r <= q

\* Time passes for the callers of waitForApiRequest; a timer that is due
\* fires before more time passes
passSleepTick ==
    /\ NextSleepStep > 0
    /\ \/ waiters.since < OldStampMs
       \/ \E c \in WaitCallers : waiters.of[c].pc = "sleeping"
    /\ waiters' = [since |-> Min(OldStampMs, waiters.since + NextSleepStep),
                   of |-> [c \in WaitCallers |->
                             IF waiters.of[c].pc = "sleeping"
                             THEN [waiters.of[c] EXCEPT !.remaining = @ - NextSleepStep]
                             ELSE waiters.of[c]]]
    /\ UNCHANGED <<lastApiRequestTime, lastCredentialFetchTime, lastWait, rateVars>>

(***************************************************************************)
(* SessionPool (src/unnamed/part_001)                                      *)
(***************************************************************************)
MaxSessions == 3          \* largest pool capacity
MaxGetSessionCalls == 6   \* longest sequence of getSession calls

NoSession == [credentials |-> NoCredentials, lastUsedAt |-> 0]

\* What the init endpoint can do for one call: fetch (or response.text())
\* rejects; or a response arrives whose body is not JSON ("unparsable"), is
\* JSON without data ("noData") or carries the key ("key"), with or without a
\* set-cookie header
NoInit == [kind |-> "none", body |-> "none", setCookie |-> Null]

InitResponses ==
    {[kind |-> "reject", body |-> "none", setCookie |-> Null]} \cup
    {[kind |-> "response", body |-> b, setCookie |-> c] :
        b \in {"unparsable", "noData", "key"}, c \in {"COOKIE", Null}}

\* Mutant: a body that does not parse is treated like a failed call
getApiCredentialsDropsCookie(response) ==
    IF response.kind = "reject" \/ response.body = "unparsable"
    THEN [publicKey |-> Null, cookie |-> Null]
    ELSE [publicKey |-> IF response.body = "key" THEN "KEY" ELSE Null,
          cookie |-> response.setCookie]

\* getApiCredentials after its wait: what it returns for an init response
getApiCredentials(response) ==
    IF response.kind = "reject"
    THEN [publicKey |-> Null, cookie |-> Null]
    ELSE [publicKey |-> IF response.body = "key" THEN "KEY" ELSE Null,
          cookie |-> response.setCookie]

NoHandout == [calls |-> 0, fetches |-> 0, session |-> NoSession, fetched |-> FALSE,
              init |-> NoInit, order |-> <<>>]

\* new SessionPool(maxSessions), no session built; the pool is not used
MaxCallers == 2   \* most getSession calls in flight at a time
Callers == 1..MaxCallers

NoneInFlight == [c \in Callers |-> "idle"]

IdlePool ==
    /\ maxSessions = 1
    /\ sessions = <<>>
    /\ currentIndex = 0
    /\ handout = NoHandout
    /\ inflight = NoneInFlight

InitPool ==
    /\ maxSessions \in 1..MaxSessions
    /\ sessions = <<>>
    /\ currentIndex = 0
    /\ handout = NoHandout
    /\ inflight = NoneInFlight

\* createNewSession from the return of getApiCredentials on (the wait for the
\* credential class and the init call are taken with it): one session pushed
\* and returned.  The time stamp of the session is the number of the call
\* that built it.
pushNewSession ==
    \E response \in InitResponses :
        LET session == [credentials |-> getApiCredentials(response),
                        lastUsedAt |-> handout.calls + 1]
        IN  /\ waitForCredentialFetch
            /\ sessions' = Append(sessions, session)
            /\ handout' = [calls |-> handout.calls + 1, fetches |-> handout.fetches + 1,
                           session |-> session, fetched |-> TRUE, init |-> response,
                           order |-> Append(handout.order, Len(sessions) + 1)]
            /\ UNCHANGED <<maxSessions, currentIndex>>

\* createNewSession called and run to its return with no other call of the
\* pool in between
createNewSession == pushNewSession /\ UNCHANGED inflight

\* The hand-out of a pooled session touches neither the limiter nor its stamps
ReuseFrame == UNCHANGED <<rateVars, waitVars, inflight>>

\* Mutant: the pool grows while it holds no more than maxSessions sessions
getSessionGrowsPastFull ==
    /\ handout.calls < MaxGetSessionCalls
    /\ IF Len(sessions) <= maxSessions
       THEN createNewSession
       ELSE /\ handout' = [handout EXCEPT !.order = Append(@, currentIndex + 1), !.calls = @ + 1,
                                          !.session = sessions[currentIndex + 1],
                                          !.fetched = FALSE,
                                          !.init = NoInit]
            /\ ReuseFrame
            /\ currentIndex' = (currentIndex + 1) % maxSessions
            /\ UNCHANGED <<maxSessions, sessions>>

\* Mutant: a reused session gets fresh credentials
getSessionRefetches ==
    /\ handout.calls < MaxGetSessionCalls
    /\ IF Len(sessions) < maxSessions
       THEN createNewSession
       ELSE /\ handout' = [handout EXCEPT !.order = Append(@, currentIndex + 1), !.calls = @ + 1,
                                          !.fetches = @ + 1,
                                          !.session = sessions[currentIndex + 1],
                                          !.fetched = TRUE,
                                          !.init = NoInit]
            /\ ReuseFrame
            /\ currentIndex' = (currentIndex + 1) % maxSessions
            /\ UNCHANGED <<maxSessions, sessions>>

\* Mutant: a reused session is stamped at hand-out
getSessionStampsReuse ==
    /\ handout.calls < MaxGetSessionCalls
    /\ IF Len(sessions) < maxSessions
       THEN createNewSession
       ELSE LET session == [sessions[currentIndex + 1] EXCEPT
                               !.lastUsedAt = handout.calls + 1]
            IN  /\ handout' = [handout EXCEPT !.order = Append(@, currentIndex + 1), !.calls = @ + 1,
                                              !.session = session,
                                              !.fetched = FALSE,
                                              !.init = NoInit]
                /\ ReuseFrame
                /\ sessions' = [sessions EXCEPT ![currentIndex + 1] = session]
                /\ currentIndex' = (currentIndex + 1) % maxSessions
                /\ UNCHANGED maxSessions

\* Mutant: the rotation index is not advanced
getSessionStaysOnFirst ==
    /\ handout.calls < MaxGetSessionCalls
    /\ IF Len(sessions) < maxSessions
       THEN createNewSession
       ELSE /\ handout' = [handout EXCEPT !.order = Append(@, currentIndex + 1), !.calls = @ + 1,
                                          !.session = sessions[currentIndex + 1],
                                          !.fetched = FALSE,
                                          !.init = NoInit]
            /\ ReuseFrame
            /\ UNCHANGED <<maxSessions, sessions, currentIndex>>

\* Mutant: the rotation index is advanced before the session is read
getSessionAdvancesFirst ==
    /\ handout.calls < MaxGetSessionCalls
    /\ IF Len(sessions) < maxSessions
       THEN createNewSession
       ELSE LET next == (currentIndex + 1) % maxSessions
            IN  /\ handout' = [handout EXCEPT !.order = Append(@, next + 1),
                                              !.calls = @ + 1,
                                              !.session = sessions[next + 1],
                                              !.fetched = FALSE,
                                              !.init = NoInit]
                /\ ReuseFrame
                /\ currentIndex' = next
                /\ UNCHANGED <<maxSessions, sessions>>

getSession ==
    /\ IF Len(sessions) < maxSessions
       THEN createNewSession
       ELSE /\ handout' = [handout EXCEPT !.order = Append(@, currentIndex + 1), !.calls = @ + 1,
                                          !.session = sessions[currentIndex + 1],
                                          !.fetched = FALSE,
                                          !.init = NoInit]
            /\ ReuseFrame
            /\ currentIndex' = (currentIndex + 1) % maxSessions
            /\ UNCHANGED <<maxSessions, sessions>>

\* Caller c calls getSession while other calls may be suspended: on a pool
\* that is not full the call enters createNewSession and is suspended at
\* await getApiCredentials(); on a full pool it returns at once
callGetSession(c) ==
    /\ inflight[c] = "idle"
    /\ IF Len(sessions) < maxSessions
       THEN /\ inflight' = [inflight EXCEPT ![c] = "createNewSession"]
            /\ UNCHANGED <<maxSessions, sessions, currentIndex, handout,
                           rateVars, waitVars>>
       ELSE /\ handout' = [handout EXCEPT !.order = Append(@, currentIndex + 1),
                                          !.calls = @ + 1,
                                          !.session = sessions[currentIndex + 1],
                                          !.fetched = FALSE,
                                          !.init = NoInit]
            /\ ReuseFrame
            /\ currentIndex' = (currentIndex + 1) % maxSessions
            /\ UNCHANGED <<maxSessions, sessions>>

\* The credential fetch of caller c returns: createNewSession pushes its
\* session and getSession returns it
returnNewSession(c) ==
    /\ inflight[c] = "createNewSession"
    /\ pushNewSession
    /\ inflight' = [inflight EXCEPT ![c] = "idle"]

\* The getSession calls made so far, returned or suspended
CallsStarted == handout.calls + Cardinality({c \in Callers : inflight[c] # "idle"})

(***************************************************************************)
(* The session-pool program (src/unnamed/part_001)                         *)
(***************************************************************************)
MaxBatchSessions == 1   \* largest --sessions value the program is run with

\* What the search endpoint can do for one call: fetch rejects (status 0), a
\* response with a rate-limit status, with another non-2xx status, or a 200
\* response whose body is not JSON ("unparsable"), is the JSON null ("null")
\* or carries a candidate list
HttpResponses ==
    {[status |-> st, body |-> "none", list |-> <<>>] : st \in {0, 429, 503, 500}} \cup
    {[status |-> 200, body |-> b, list |-> <<>>] : b \in {"unparsable", "null"}} \cup
    {[status |-> 200, body |-> "list", list |-> l] : l \in CandidateLists}

NoSearch == [term |-> <<>>, cookie |-> FALSE, signature |-> FALSE, status |-> -1,
             body |-> "none", count |-> 0, threw |-> FALSE]

\* Mutant: every status but 200 counts as a rate limit
isRateLimitedAnyError(response) == response.status # 200

\* response.status === 429 || response.status === 503
isRateLimited(response) == response.status \in {429, 503}

\* response.ok, and response.json() resolves
isParsed(response) == response.status = 200 /\ response.body # "unparsable"

\* createSignature: null without a key; a key the init call returned is taken
\* to sign
createSignature(publicKey) == IF publicKey = Null THEN Null ELSE "SIGNATURE"

\* The headers of a search request beyond HTTP_HEADERS: Cookie and signature,
\* each only if set
searchHeaders(creds) ==
    [cookie |-> creds.cookie # Null,
     signature |-> createSignature(creds.publicKey) # Null]

\* The log of one fetchProductWithRetry call: the product (its position), the
\* fetchProduct calls, the search calls and the rate-limit responses so far,
\* whether the call has returned a row, or thrown after the last attempt
NoBatchLog == [i |-> 0, fetches |-> 0, searches |-> 0, rateLimits |-> 0,
               returned |-> FALSE, gaveUp |-> FALSE]

\* The program of part_001 does not run
IdleBatch ==
    /\ batch = [productNames |-> <<>>, i |-> 0, attempt |-> 0, phase |-> "full",
                session |-> NoSession, results |-> <<>>, pc |-> "idle"]
    /\ batchLog = NoBatchLog
    /\ lastSearch = NoSearch

\* main at the first fetchProductWithRetry call, in its first attempt
InitBatch ==
    /\ \E names \in Inputs :
          /\ batch = [productNames |-> names, i |-> 1, attempt |-> 1, phase |-> "full",
                      session |-> NoSession, results |-> <<>>, pc |-> "getSession"]
          /\ batchLog = NoBatchLog
    /\ lastSearch = NoSearch

\* results.length === 1 ? results[0] : findExactMatch(productName, results)
selectProduct(productName, results_) ==
    IF Len(results_) = 1 THEN results_[1] ELSE findExactMatch(productName, results_)

\* fetchProduct from the return of a search on: the prefix search comes next,
\* or the product has its row
afterSearch(productName, phase, results_) ==
    LET empty == [prodName |-> productName, prodRegCode |-> ""]
        sel == selectProduct(productName, results_)
    IN  IF Len(results_) = 0
        THEN IF phase = "full"
             THEN [next |-> "prefix", row |-> empty]
             ELSE [next |-> "row", row |-> empty]
        ELSE IF sel.isNull
        THEN [next |-> "row", row |-> empty]
        ELSE [next |-> "row",
              row |-> [prodName |-> sel.prodName,
                       prodRegCode |-> IF sel.prodRegCode = Undefined THEN ""
                                       ELSE sel.prodRegCode]]

\* main: results.push(row), then the next product or the CSV
pushRow(b, row) ==
    [b EXCEPT !.results = Append(@, row),
              !.i = @ + 1,
              !.attempt = 1,
              !.phase = "full",
              !.pc = IF b.i = Len(b.productNames) THEN "done" ELSE "getSession"]

\* Mutant: the retry budget is one attempt short
afterThrowOneShort(b) ==
    IF b.attempt >= MAX_RETRY_ATTEMPTS - 1
    THEN pushRow(b, [prodName |-> b.productNames[b.i], prodRegCode |-> ""])
    ELSE [b EXCEPT !.attempt = @ + 1, !.phase = "full", !.pc = "getSession"]

\* fetchProductWithRetry and main when a search has thrown: the next attempt,
\* or the empty row once attempt >= maxAttempts
afterThrow(b) ==
    IF b.attempt >= MAX_RETRY_ATTEMPTS
    THEN pushRow(b, [prodName |-> b.productNames[b.i], prodRegCode |-> ""])
    ELSE [b EXCEPT !.attempt = @ + 1, !.phase = "full", !.pc = "getSession"]

\* searchProducts up to its first await: sessionPool.getSession().  A search
\* of the full name opens a fetchProduct call.
acquireSession ==
    /\ batch.pc = "getSession"
    /\ getSession
    /\ batch' = [batch EXCEPT !.session = handout'.session, !.pc = "waitForApiRequest"]
    /\ batchLog' = IF batchLog.i # batch.i
                   THEN [NoBatchLog EXCEPT !.i = batch.i, !.fetches = 1]
                   ELSE [batchLog EXCEPT !.fetches =
                            IF batch.phase = "full" THEN @ + 1 ELSE @]
    /\ UNCHANGED lastSearch

\* searchProducts: globalRateLimiter.waitForApiRequest()
awaitApiRequest ==
    /\ batch.pc = "waitForApiRequest"
    /\ waitForApiRequest
    /\ batch' = [batch EXCEPT !.pc = "fetch"]
    /\ UNCHANGED <<poolVars, batchLog, lastSearch>>

\* searchProducts from the request on: the headers, the response, the report
\* to the rate limiter, and what fetchProduct, fetchProductWithRetry and main
\* do with the outcome up to the next searchProducts call
receiveResponse ==
    /\ batch.pc = "fetch"
    /\ \E response \in HttpResponses :
         LET productName == batch.productNames[batch.i]
             term == IF batch.phase = "full" THEN productName
                     ELSE SubSeq(productName, 1,
                                 Min(Len(productName), FALLBACK_SEARCH_PREFIX_LENGTH))
             rateLimited == isRateLimited(response)
             parsed == isParsed(response)
             threw == response.status # 200 \/ response.body # "list"
             after == afterSearch(productName, batch.phase, response.list)
         IN  /\ IF rateLimited THEN reportRateLimit
                ELSE IF parsed THEN reportSuccess
                ELSE UNCHANGED rateVars
             /\ lastSearch' = [term |-> term,
                               cookie |-> searchHeaders(batch.session.credentials).cookie,
                               signature |-> searchHeaders(batch.session.credentials).signature,
                               status |-> response.status,
                               body |-> response.body,
                               count |-> Len(response.list),
                               threw |-> threw]
             /\ batch' = IF threw THEN afterThrow(batch)
                         ELSE IF after.next = "prefix"
                         THEN [batch EXCEPT !.phase = "prefix", !.pc = "getSession"]
                         ELSE pushRow(batch, after.row)
             /\ batchLog' = [batchLog EXCEPT
                    !.searches = @ + 1,
                    !.rateLimits = IF rateLimited THEN @ + 1 ELSE @,
                    !.returned = ~threw /\ after.next = "row",
                    !.gaveUp = threw /\ batch.attempt >= MAX_RETRY_ATTEMPTS]
    /\ UNCHANGED <<poolVars, waitVars>>

(***************************************************************************)
(* The retry-wrapper program (src/unnamed/part_000)                        *)
(***************************************************************************)
INITIAL_RETRY_WAIT_MS == 8000
FALLBACK_SEARCH_DELAY_MS == 8000
PREFIX_LENGTH == 8

\* normalizeForComparison of part_000: parentheses and quotes, not whitespace
normalizeForComparisonOfWrapper(str) ==
    LET notParen(c) == c \notin ParenChars
        notQuote(c) == c \notin QuoteChars
    IN  SelectSeq(SelectSeq(str, notParen), notQuote)

RECURSIVE commonPrefixFrom(_, _, _)
commonPrefixFrom(a, b, i) ==
    IF i < Min(Len(a), Len(b)) /\ a[i + 1] = b[i + 1]
    THEN commonPrefixFrom(a, b, i + 1)
    ELSE i

longestCommonPrefixLength(a, b) ==
    commonPrefixFrom(normalizeForComparisonOfWrapper(a),
                     normalizeForComparisonOfWrapper(b), 0)

\* Mutant: a tie in score keeps the earlier candidate whatever the lengths
RECURSIVE findBestMatchFromKeepsFirst(_, _, _, _, _)
findBestMatchFromKeepsFirst(searchTerm, candidates, k, bestMatch, bestScore) ==
    IF k > Len(candidates) THEN bestMatch
    ELSE IF candidates[k].isNull
    THEN findBestMatchFromKeepsFirst(searchTerm, candidates, k + 1, bestMatch, bestScore)
    ELSE LET score == longestCommonPrefixLength(searchTerm, candidates[k].prodName)
         IN  IF score > bestScore
             THEN findBestMatchFromKeepsFirst(searchTerm, candidates, k + 1,
                                              candidates[k], score)
             ELSE findBestMatchFromKeepsFirst(searchTerm, candidates, k + 1,
                                              bestMatch, bestScore)

\* The for loop of findBestMatch from index k (1-based) on
RECURSIVE findBestMatchFrom(_, _, _, _, _)
findBestMatchFrom(searchTerm, candidates, k, bestMatch, bestScore) ==
    IF k > Len(candidates) THEN bestMatch
    ELSE IF candidates[k].isNull
    THEN findBestMatchFrom(searchTerm, candidates, k + 1, bestMatch, bestScore)
    ELSE LET score == longestCommonPrefixLength(searchTerm, candidates[k].prodName)
         IN  IF \/ score > bestScore
                \/ /\ score = bestScore
                   /\ Len(candidates[k].prodName) < Len(bestMatch.prodName)
             THEN findBestMatchFrom(searchTerm, candidates, k + 1, candidates[k], score)
             ELSE findBestMatchFrom(searchTerm, candidates, k + 1, bestMatch, bestScore)

\* threw: the empty array, or an undefined first candidate
findBestMatch(searchTerm, candidates) ==
    IF Len(candidates) = 0 \/ candidates[1].isNull
    THEN [threw |-> TRUE, match |-> NullProduct]
    ELSE [threw |-> FALSE,
          match |-> findBestMatchFrom(searchTerm, candidates, 2, candidates[1],
                        longestCommonPrefixLength(searchTerm, candidates[1].prodName))]

\* fetchProduct of part_000: the full-name search answered by first, the
\* prefix search (when it is issued) by second
fetchProductOfWrapper(productName, first, second) ==
    LET full == searchProducts(productName, first)
        prefix == SubSeq(productName, 1, Min(PREFIX_LENGTH, Len(productName)))
        fallback == searchProducts(prefix, second)
        viaPrefix == ~full.threw /\ Len(full.list) = 0
        found == IF viaPrefix THEN fallback ELSE full
        searches == IF viaPrefix THEN 2 ELSE 1
        best == findBestMatch(productName, found.list)
        selected == IF Len(found.list) = 1 THEN found.list[1] ELSE best.match
    IN  IF found.threw
        THEN [threw |-> TRUE, result |-> NoResult, searches |-> searches]
        ELSE IF Len(found.list) = 0
        THEN [threw |-> FALSE, searches |-> searches,
              result |-> [prodName |-> productName, prodRegCode |-> ""]]
        ELSE IF (Len(found.list) > 1 /\ best.threw) \/ selected.isNull
        THEN [threw |-> TRUE, result |-> NoResult, searches |-> searches]
        ELSE [threw |-> FALSE, searches |-> searches,
              result |-> [prodName |-> selected.prodName,
                          prodRegCode |-> IF selected.prodRegCode = Undefined
                                          THEN "" ELSE selected.prodRegCode]]

NoRetryLog(names) ==
    [i \in 1..Len(names) |->
        [fetches |-> 0, searches |-> 0, sleeps |-> <<>>, threw |-> FALSE]]

\* No wrapper program runs
IdleRetry ==
    /\ retry = [productNames |-> <<>>, i |-> 1, attempt |-> 0,
                waitMs |-> INITIAL_RETRY_WAIT_MS, results |-> <<>>, pc |-> "idle",
                csv |-> <<>>]
    /\ retryLog = <<>>

\* main of part_000 at the head of its for loop
InitRetry ==
    /\ \E names \in Inputs :
         /\ retry = [productNames |-> names, i |-> 1, attempt |-> 0,
                     waitMs |-> INITIAL_RETRY_WAIT_MS, results |-> <<>>,
                     pc |-> "fetch", csv |-> <<>>]
         /\ retryLog = NoRetryLog(names)

\* What main does when fetchProductWithRetry has returned or thrown: push the
\* result (on return), go to the next product with a fresh attempt counter
nextProduct(rows) ==
    [retry EXCEPT !.results = rows, !.i = @ + 1, !.attempt = 0,
                  !.waitMs = INITIAL_RETRY_WAIT_MS]

\* Mutant: the wait grows by the initial wait instead of doubling
NextAttemptLinearBackoff(first, second) ==
    LET productName == retry.productNames[retry.i]
        attempt == retry.attempt + 1
        fetched == fetchProductOfWrapper(productName, first, second)
        giveUp == fetched.threw /\ attempt >= MAX_RETRY_ATTEMPTS
        sleep == fetched.threw /\ ~giveUp
    IN  /\ retry' = IF ~fetched.threw
                    THEN nextProduct(Append(retry.results, fetched.result))
                    ELSE IF giveUp
                    THEN nextProduct(retry.results)
                    ELSE [retry EXCEPT !.attempt = attempt,
                                       !.waitMs = @ + INITIAL_RETRY_WAIT_MS]
        /\ retryLog' = [retryLog EXCEPT ![retry.i] =
                          [fetches |-> @.fetches + 1,
                           searches |-> @.searches + fetched.searches,
                           sleeps |-> IF sleep THEN Append(@.sleeps, retry.waitMs)
                                      ELSE @.sleeps,
                           threw |-> fetched.threw]]

\* One iteration of the while loop of fetchProductWithRetry, and on its return
\* or final throw the rest of the for-loop body of main
NextAttempt(first, second) ==
    LET productName == retry.productNames[retry.i]
        attempt == retry.attempt + 1
        fetched == fetchProductOfWrapper(productName, first, second)
        giveUp == fetched.threw /\ attempt >= MAX_RETRY_ATTEMPTS
        sleep == fetched.threw /\ ~giveUp
    IN  /\ retry' = IF ~fetched.threw
                    THEN nextProduct(Append(retry.results, fetched.result))
                    ELSE IF giveUp
                    THEN nextProduct(retry.results)
                    ELSE [retry EXCEPT !.attempt = attempt, !.waitMs = 2 * @]
        /\ retryLog' = [retryLog EXCEPT ![retry.i] =
                          [fetches |-> @.fetches + 1,
                           searches |-> @.searches + fetched.searches,
                           sleeps |-> IF sleep THEN Append(@.sleeps, retry.waitMs)
                                      ELSE @.sleeps,
                           threw |-> fetched.threw]]

fetchProductWithRetry ==
    /\ retry.pc = "fetch"
    /\ retry.i <= Len(retry.productNames)
    /\ \E first, second \in Responses : NextAttempt(first, second)

\* The for loop is over: writeCsv(results, outputPath)
writeCsv ==
    /\ retry.pc = "fetch"
    /\ retry.i > Len(retry.productNames)
    /\ retry' = [retry EXCEPT !.pc = "done", !.csv = retry.results]
    /\ UNCHANGED retryLog

(***************************************************************************)
(* The Matcher called on its own                                           *)
(***************************************************************************)
MaxLen == 3   \* longest string handed to normalizeForComparison

\* The curly quotes U+2018, U+2019, U+201C, U+201D
CurlyQuoteChars == {"LSQ", "RSQ", "LDQ", "RDQ"}

Chars == {"A", "B"} \cup ParenChars \cup QuoteChars \cup CurlyQuoteChars
             \cup WhitespaceChars

Strings == SeqsUpTo(Chars, MaxLen)

\* Names that normalize to "AB" in several spellings, and one that does not
MatcherNames ==
    {<<"A", "B">>, NHalf, QParen, <<"A", " ", "B">>, <<"B">>}

MatcherCandidates ==
    {Product(n, c) : n \in MatcherNames, c \in {"X001", "X002"}} \cup {NullProduct}

NoOutput == [called |-> FALSE, normalized |-> <<>>, match |-> NullProduct]

IdleMatcher ==
    /\ matcherIn = [str |-> <<>>, candidates |-> <<>>]
    /\ matcherOut = NoOutput

InitNormalize ==
    /\ matcherIn \in [str : Strings, candidates : {<<>>}]
    /\ matcherOut = NoOutput

InitMatch ==
    /\ matcherIn \in [str : MatcherNames,
                       candidates : SeqsUpTo(MatcherCandidates, MaxCandidates)]
    /\ matcherOut = NoOutput

\* A call normalizeForComparison(str)
callNormalizeForComparison ==
    /\ ~matcherOut.called
    /\ matcherOut' = [called |-> TRUE,
                      normalized |-> normalizeForComparison(matcherIn.str),
                      match |-> NullProduct]
    /\ UNCHANGED matcherIn

\* The names findBestMatch is called with: "AB" in several spellings, names
\* that share a shorter prefix with it or none, and a longer one
MaxSimilar == 3   \* longest candidate list handed to findBestMatch

SimilarNames ==
    {<<"A", "B">>, NHalf, <<"A">>, <<"(", "A">>, <<"B">>, <<"A", "B", "A">>}

SimilarCandidates == {Product(n, c) : n \in SimilarNames, c \in {"X001", "X002"}}

InitSimilar ==
    /\ matcherIn \in [str : {<<"A", "B">>, QParen, <<"A", "B", "A">>},
                       candidates : SeqsUpTo(SimilarCandidates, MaxSimilar) \ {<<>>}]
    /\ matcherOut = NoOutput

\* A call findBestMatch(searchTerm, candidates) of part_000
callFindBestMatch ==
    /\ ~matcherOut.called
    /\ matcherOut' = [called |-> TRUE,
                      normalized |-> normalizeForComparisonOfWrapper(matcherIn.str),
                      match |-> findBestMatch(matcherIn.str, matcherIn.candidates).match]
    /\ UNCHANGED matcherIn

\* A call findExactMatch(searchTerm, candidates)
callFindExactMatch ==
    /\ ~matcherOut.called
    /\ matcherOut' = [called |-> TRUE,
                      normalized |-> normalizeForComparison(matcherIn.str),
                      match |-> findExactMatch(matcherIn.str, matcherIn.candidates)]
    /\ UNCHANGED matcherIn

(***************************************************************************)
(* Specifications                                                          *)
(***************************************************************************)
\* The queue engine runs; the rate limiter is not part of src/index.ts
Init == InitQueue /\ InitRate /\ IdlePool /\ IdleRetry /\ IdleMatcher /\ IdleWait /\ IdleBatch

Next ==
    \/ ProcessPending /\ UNCHANGED <<rateVars, poolVars, retryVars, matcherVars, waitVars, batchVars>>
    \/ QueueDrained /\ UNCHANGED <<rateVars, poolVars, retryVars, matcherVars, waitVars, batchVars>>

Spec == Init /\ [][Next]_vars

\* The event loop resumes processProductQueue after every await
FairSpec == Spec /\ WF_vars(Next)

\* main of src/index.ts from the credential fetch on
InitAll == InitMain /\ InitRate /\ IdlePool /\ IdleRetry /\ IdleMatcher /\ IdleWait /\ IdleBatch

NextMain ==
    \/ fetchCredentials /\ UNCHANGED <<rateVars, poolVars, retryVars, matcherVars, waitVars, batchVars>>
    \/ ProcessPending /\ UNCHANGED <<rateVars, poolVars, retryVars, matcherVars, waitVars, batchVars>>
    \/ QueueDrained /\ UNCHANGED <<rateVars, poolVars, retryVars, matcherVars, waitVars, batchVars>>

SpecMain == InitAll /\ [][NextMain]_vars

\* The rate limiter alone, under any sequence of reports at any times
IdleQueue ==
    /\ productNames = <<>>
    /\ queue = <<>>
    /\ results = <<>>
    /\ output = <<>>
    /\ pc = "idle"
    /\ credentials = NoCredentials
    /\ calls = <<>>
    /\ errs = <<>>
    /\ stored = <<>>
    /\ last = NoPass

InitLimiter == IdleQueue /\ InitRate /\ IdlePool /\ IdleRetry /\ IdleMatcher /\ IdleWait /\ IdleBatch

NextLimiter ==
    \/ SuccessCountable /\ reportSuccess
          /\ UNCHANGED <<queueVars, poolVars, retryVars, matcherVars, waitVars, batchVars>>
    \/ FailureCountable /\ reportRateLimit
          /\ UNCHANGED <<queueVars, poolVars, retryVars, matcherVars, waitVars, batchVars>>
    \/ AdvanceClock /\ UNCHANGED <<queueVars, poolVars, retryVars, matcherVars, waitVars, batchVars>>

SpecLimiter == InitLimiter /\ [][NextLimiter]_vars

\* The rate limiter with its wait methods, called at any times
InitWaits == IdleQueue /\ InitRate /\ IdlePool /\ IdleRetry /\ IdleMatcher /\ IdleWait /\ IdleBatch

NextWaits ==
    \/ waitForApiRequest /\ UNCHANGED <<queueVars, poolVars, retryVars, matcherVars, batchVars>>
    \/ waitForCredentialFetch /\ UNCHANGED <<queueVars, poolVars, retryVars, matcherVars, batchVars>>
    \/ AdvanceClock /\ UNCHANGED <<queueVars, poolVars, retryVars, matcherVars, waitVars, batchVars>>
    \/ FailureCountable /\ reportRateLimit
          /\ UNCHANGED <<queueVars, poolVars, retryVars, matcherVars, waitVars, batchVars>>

SpecWaits == InitWaits /\ [][NextWaits]_vars

\* The session-pool program: main of part_001 with its pool and rate limiter,
\* for the first MaxGetSessionCalls search calls.  That is fewer than
\* ADAPTATION_WINDOW reports, so the age of the last adjustment is never
\* consulted and the clock of AdvanceClock is left out.
InitBatchProgram ==
    /\ IdleQueue /\ InitRate /\ InitPool /\ IdleRetry /\ IdleMatcher /\ IdleWait /\ InitBatch
    /\ maxSessions <= MaxBatchSessions

NextBatchProgram ==
    \/ /\ handout.calls < MaxGetSessionCalls
       /\ acquireSession
       /\ UNCHANGED <<queueVars, retryVars, matcherVars>>
    \/ awaitApiRequest /\ UNCHANGED <<queueVars, retryVars, matcherVars>>
    \/ receiveResponse /\ UNCHANGED <<queueVars, retryVars, matcherVars>>

SpecBatchProgram == InitBatchProgram /\ [][NextBatchProgram]_vars

\* The session pool alone, under any sequence of getSession calls
InitSessionPool == IdleQueue /\ InitRate /\ InitPool /\ IdleRetry /\ IdleMatcher /\ IdleWait /\ IdleBatch

NextSessionPool ==
    /\ handout.calls < MaxGetSessionCalls
    /\ getSession
    /\ UNCHANGED <<queueVars, retryVars, matcherVars, batchVars>>

SpecSessionPool == InitSessionPool /\ [][NextSessionPool]_vars

\* The session pool under callers whose getSession calls may overlap
NextOverlapPool ==
    \/ \E c \in Callers :
          /\ CallsStarted < MaxGetSessionCalls
          /\ callGetSession(c)
          /\ UNCHANGED <<queueVars, retryVars, matcherVars, batchVars>>
    \/ \E c \in Callers :
          /\ returnNewSession(c)
          /\ UNCHANGED <<queueVars, retryVars, matcherVars, batchVars>>

SpecOverlapPool == InitSessionPool /\ [][NextOverlapPool]_vars

\* waitForApiRequest under callers whose calls may overlap, with rate-limit
\* reports in between
NextOverlapWaits ==
    \/ \E c \in WaitCallers :
          /\ enterWaitForApiRequest(c)
          /\ UNCHANGED <<queueVars, poolVars, retryVars, matcherVars, batchVars>>
    \/ \E c \in WaitCallers :
          /\ leaveWaitForApiRequest(c)
          /\ UNCHANGED <<queueVars, poolVars, retryVars, matcherVars, batchVars>>
    \/ passSleepTick
          /\ UNCHANGED <<queueVars, poolVars, retryVars, matcherVars, batchVars>>
    \/ FailureCountable /\ reportRateLimit
          /\ UNCHANGED <<queueVars, poolVars, retryVars, matcherVars, waitVars, batchVars>>

SpecOverlapWaits == InitWaits /\ [][NextOverlapWaits]_vars

\* The retry-wrapper program alone
InitRetryWrapper == IdleQueue /\ InitRate /\ IdlePool /\ InitRetry /\ IdleMatcher /\ IdleWait /\ IdleBatch

NextRetryWrapper ==
    \/ fetchProductWithRetry /\ UNCHANGED <<queueVars, rateVars, poolVars, matcherVars, waitVars, batchVars>>
    \/ writeCsv /\ UNCHANGED <<queueVars, rateVars, poolVars, matcherVars, waitVars, batchVars>>

SpecRetryWrapper == InitRetryWrapper /\ [][NextRetryWrapper]_vars

\* normalizeForComparison called on any string
InitNormalizer == IdleQueue /\ InitRate /\ IdlePool /\ IdleRetry /\ InitNormalize /\ IdleWait /\ IdleBatch

NextNormalizer ==
    callNormalizeForComparison /\ UNCHANGED <<queueVars, rateVars, poolVars, retryVars, waitVars, batchVars>>

SpecNormalizer == InitNormalizer /\ [][NextNormalizer]_vars

\* findExactMatch called on any search term and candidate list
InitMatcher == IdleQueue /\ InitRate /\ IdlePool /\ IdleRetry /\ InitMatch /\ IdleWait /\ IdleBatch

NextMatcher ==
    callFindExactMatch /\ UNCHANGED <<queueVars, rateVars, poolVars, retryVars, waitVars, batchVars>>

SpecMatcher == InitMatcher /\ [][NextMatcher]_vars

\* findBestMatch of part_000 called on any search term and list of records
InitSimilarity == IdleQueue /\ InitRate /\ IdlePool /\ IdleRetry /\ InitSimilar /\ IdleWait /\ IdleBatch

NextSimilarity ==
    callFindBestMatch /\ UNCHANGED <<queueVars, rateVars, poolVars, retryVars, waitVars, batchVars>>

SpecSimilarity == InitSimilarity /\ [][NextSimilarity]_vars

\* Either program on its own input: the queue engine of src/index.ts, or the
\* retry wrapper of part_000
InitPrograms ==
    /\ InitRate /\ IdlePool /\ IdleMatcher /\ IdleWait /\ IdleBatch
    /\ \/ InitQueue /\ IdleRetry
       \/ IdleQueue /\ InitRetry

NextPrograms ==
    \/ ProcessPending /\ UNCHANGED <<rateVars, poolVars, retryVars, matcherVars, waitVars, batchVars>>
    \/ QueueDrained /\ UNCHANGED <<rateVars, poolVars, retryVars, matcherVars, waitVars, batchVars>>
    \/ fetchProductWithRetry /\ UNCHANGED <<queueVars, rateVars, poolVars, matcherVars, waitVars, batchVars>>
    \/ writeCsv /\ UNCHANGED <<queueVars, rateVars, poolVars, matcherVars, waitVars, batchVars>>

SpecPrograms == InitPrograms /\ [][NextPrograms]_vars

(***************************************************************************)
(* Properties of the queue engine                                          *)
(***************************************************************************)
Items == 1..Len(queue)
Terminal(i) == queue[i].status \in {"success", "fail"}
EmptyRow(name) == [prodName |-> name, prodRegCode |-> ""]
\* The row a matched candidate yields: its raw name, its code ("" when missing)
RowOf(candidate) ==
    [prodName |-> candidate.prodName,
     prodRegCode |-> IF candidate.prodRegCode = Undefined THEN ""
                     ELSE candidate.prodRegCode]
SameNormalized(a, b) == normalizeForComparison(a) = normalizeForComparison(b)

\* C1: once the queue is processed and ordered, the output has exactly one row
\* per input query, and row i belongs to query i: it is a result that a pass
\* recorded for an item carrying that query, and its name normalizes to the query.
C1_OneRowPerQueryInOrder ==
    pc = "done" =>
        /\ Len(output) = Len(productNames)
        /\ \A i \in 1..Len(productNames) :
            /\ SameNormalized(output[i].prodName, productNames[i])
            /\ \E j \in Items :
                /\ queue[j].name = productNames[i]
                /\ stored[j] # <<>>
                /\ output[i] = stored[j][Len(stored[j])]

\* Two different queries, the first given up after transport errors, the second
\* resolved after a retry, both in the output.
C1_Witness ==
    /\ pc = "done"
    /\ Len(productNames) = 2
    /\ productNames[1] # productNames[2]
    /\ queue[1].status = "fail" /\ errs[1] = MAX_RETRY_ATTEMPTS
    /\ queue[2].status = "success" /\ errs[2] > 0

\* C2: processProductQueue terminates: an item is pending for at most
\* MAX_RETRY_ATTEMPTS passes (one search call each), so at most
\* MAX_RETRY_ATTEMPTS x (number of items) passes happen, and the loop ends.
PassesBounded ==
    /\ \A i \in Items :
        /\ calls[i] <= MAX_RETRY_ATTEMPTS
        /\ queue[i].status = "pending" => calls[i] < MAX_RETRY_ATTEMPTS
    /\ pc = "done" => \A i \in Items : Terminal(i)

C2_QueueTerminates == [](PassesBounded) /\ <>(pc = "done")

\* A run that used the whole budget of an item and ended.
C2_Witness ==
    /\ pc = "done"
    /\ \E i \in Items : calls[i] = MAX_RETRY_ATTEMPTS
    /\ \E i \in Items : calls[i] = 1

\* C3: attemptCount stays within 0..MAX_RETRY_ATTEMPTS, and an item that is
\* pending between two passes has attemptCount < MAX_RETRY_ATTEMPTS.
C3_AttemptCountBounded ==
    \A i \in Items :
        /\ queue[i].attemptCount \in 0..MAX_RETRY_ATTEMPTS
        /\ queue[i].status = "pending" => queue[i].attemptCount < MAX_RETRY_ATTEMPTS

\* An item on its last attempt, and one that used all of them.
C3_Witness ==
    /\ \E i \in Items :
        queue[i].status = "pending" /\ queue[i].attemptCount = MAX_RETRY_ATTEMPTS - 1
    /\ \E i \in Items : queue[i].attemptCount = MAX_RETRY_ATTEMPTS

\* C4: an item all of whose search calls ended in a transport error is 'fail'
\* exactly when its attemptCount has reached MAX_RETRY_ATTEMPTS; then exactly
\* MAX_RETRY_ATTEMPTS calls were issued for it and an empty-code result was
\* recorded; the loop goes on while an item is pending and ends in "done".
C4_TransportErrorsExhaustBudget ==
    /\ \A i \in Items :
        (calls[i] > 0 /\ errs[i] = calls[i]) =>
            /\ queue[i].status # "success"
            /\ queue[i].status = "fail" <=> queue[i].attemptCount = MAX_RETRY_ATTEMPTS
            /\ queue[i].status = "fail" =>
                /\ calls[i] = MAX_RETRY_ATTEMPTS
                /\ stored[i] = <<EmptyRow(queue[i].name)>>
                /\ queue[i].name \in DOMAIN results
                /\ last.idx = i => results[queue[i].name] = EmptyRow(queue[i].name)
    /\ pc \in {"loop", "done"}
    /\ pc = "done" => \A i \in Items : Terminal(i)

\* The first item was given up after five transport errors, and the loop went
\* on to the second one, which it resolved.
C4_Witness ==
    /\ Len(queue) = 2
    /\ queue[1].status = "fail" /\ errs[1] = MAX_RETRY_ATTEMPTS
    /\ calls[1] = MAX_RETRY_ATTEMPTS
    /\ queue[2].status = "success"

\* A pass that ended in a deterministic failure: a non-empty candidate list
\* without exact match, or an empty list from the prefix search.
DeterministicFailure(pass) ==
    /\ pass.seen.kind = "ok"
    /\ \/ pass.seen.count > 0 /\ pass.seen.firstExact.isNull
       \/ pass.seen.count = 0 /\ pass.viaPrefix

PrefixAnsweredWithoutMatch(pass) ==
    pass.viaPrefix /\ pass.seen.kind = "ok" /\ pass.seen.firstExact.isNull

\* The terminal pass of item i has just happened, the full-name search of the
\* item had come back empty, no prefix search of it was answered without an
\* exact match, and at most maxErrors of its calls were transport errors: then
\* the item is resolved with the code of the exact match.
FallbackResolves(maxErrors) ==
    \A i \in Items :
        ( /\ last.idx = i
          /\ Terminal(i)
          /\ queue[i].triedFullName
          /\ ~PrefixAnsweredWithoutMatch(last)
          /\ errs[i] <= maxErrors ) =>
            /\ queue[i].status = "success"
            /\ stored[i] = <<RowOf(last.seen.firstExact)>>
            /\ results[queue[i].name] = RowOf(last.seen.firstExact)

C7_ErrorsThenMatch ==
    \A i \in Items :
        /\ ( /\ ~queue[i].triedFullName
             /\ errs[i] = calls[i]
             /\ errs[i] < MAX_RETRY_ATTEMPTS ) => queue[i].status = "pending"
        /\ ( /\ last.idx = i
             /\ ~queue[i].triedFullName
             /\ last.seen.kind = "ok"
             /\ ~last.seen.firstExact.isNull ) =>
                /\ queue[i].status = "success"
                /\ queue[i].attemptCount = errs[i] + 1
                /\ calls[i] = errs[i] + 1
                /\ Len(stored[i]) = 1

\* Two transport errors, then a match: attemptCount 3; and in the same run an
\* item resolved on its very last attempt.
C7_Witness ==
    /\ \E i \in Items :
        /\ queue[i].status = "success" /\ ~queue[i].triedFullName
        /\ errs[i] = 2 /\ queue[i].attemptCount = 3
    /\ \E i \in Items :
        /\ queue[i].status = "success" /\ ~queue[i].triedFullName
        /\ errs[i] = MAX_RETRY_ATTEMPTS - 1

C10_DelaysWithinBounds ==
    /\ currentRequestDelay \in MIN_REQUEST_DELAY..MAX_REQUEST_DELAY
    /\ currentCredentialDelay \in MIN_CREDENTIAL_DELAY..MAX_CREDENTIAL_DELAY

\* Enough rate-limit reports to hold the credential delay at its ceiling, then
\* enough speed-ups to bring the search-call delay down to its floor.
C10_Witness ==
    /\ currentRequestDelay = MIN_REQUEST_DELAY
    /\ currentCredentialDelay = MAX_CREDENTIAL_DELAY

\* A step of reportRateLimit: the only operation that raises recentFailures
RateLimitReported == recentFailures' = recentFailures + 1

\* C11 as claimed: every reportRateLimit strictly increases the search-call
\* delay, whatever the success counter and the time since the last adjustment.
C11_AsClaimed ==
    [][RateLimitReported => currentRequestDelay' > currentRequestDelay]_vars

\* C11 as amended: a reportRateLimit, whatever the success counter and the time
\* since the last adjustment, strictly increases the search-call delay while it
\* is below MAX_REQUEST_DELAY and leaves it at MAX_REQUEST_DELAY once it is
\* there; it resets the success counter and stamps the adjustment time.
C11_BackoffDominance ==
    [][RateLimitReported =>
        /\ currentRequestDelay < MAX_REQUEST_DELAY =>
              currentRequestDelay' > currentRequestDelay
        /\ currentRequestDelay = MAX_REQUEST_DELAY =>
              currentRequestDelay' = MAX_REQUEST_DELAY
        /\ recentSuccesses' = 0
        /\ sinceAdjustment' = 0
      ]_vars

\* A rate-limit report right after a speed-up (ten successes, 1000 -> 950),
\* inside the adjustment interval: the delay went up to 1425.
C11_Witness ==
    /\ currentRequestDelay = backOff(speedUp(GLOBAL_REQUEST_COOLDOWN_MS), MAX_REQUEST_DELAY)
    /\ recentFailures = 1
    /\ recentSuccesses = 0
    /\ sinceAdjustment = 0

(***************************************************************************)
(* Properties of the session pool                                          *)
(***************************************************************************)
\* C12: after any number of sequential getSession calls the pool holds at most
\* maxSessions sessions, and once it holds exactly maxSessions, no later
\* getSession adds (or replaces) a session.
C12_PoolCapacityBound ==
    /\ [](Len(sessions) <= maxSessions)
    /\ [][Len(sessions) = maxSessions => sessions' = sessions]_vars

\* A full pool of three sessions that has handed out sessions again after it
\* became full.
C12_Witness ==
    /\ maxSessions = MaxSessions
    /\ Len(sessions) = maxSessions
    /\ handout.calls > maxSessions + 1

\* C13: at every point the number of credential fetches equals the number of
\* sessions built, which is min(getSession calls, maxSessions); a getSession
\* fetched credentials exactly when it built a session, and else returned a
\* session of the pool; with maxSessions = 1 one fetch is issued in all and
\* every call returns the single session.
C13_CredentialFetchAccounting ==
    /\ handout.fetches = Len(sessions)
    /\ Len(sessions) = Min(handout.calls, maxSessions)
    /\ handout.calls > 0 =>
        /\ handout.fetched <=> handout.calls <= maxSessions
        /\ \E k \in 1..Len(sessions) : handout.session = sessions[k]
        /\ maxSessions = 1 => handout.fetches = 1 /\ handout.session = sessions[1]

\* A pool of capacity 1 after several calls, the last of which reused the
\* session built by the first.
C13_Witness ==
    /\ maxSessions = 1
    /\ handout.calls = MaxGetSessionCalls
    /\ handout.fetches = 1
    /\ ~handout.fetched
    /\ handout.session.lastUsedAt = 1

(***************************************************************************)
(* Properties of main                                                      *)
(***************************************************************************)
\* C14 as claimed: a credential acquisition that yields an unset signing key or
\* an unset cookie does not abort the batch: whenever the run has ended, every
\* query was processed and the output has one row per input query.
C14_AsClaimed ==
    pc \in {"done", "exit1"} =>
        /\ Len(queue) = Len(productNames)
        /\ \A i \in Items : Terminal(i)
        /\ Len(output) = Len(productNames)

\* C14, what main does: with an unset key or cookie the run ends in
\* process.exit(1) before the queue is built, with no search issued and no
\* row produced; a run that processes the queue holds both credentials.
C14_CredentialFailureExits ==
    /\ (pc # "start" /\ (credentials.publicKey = Null \/ credentials.cookie = Null)) =>
        /\ pc = "exit1"
        /\ queue = <<>> /\ output = <<>> /\ results = <<>>
        /\ \A i \in 1..Len(productNames) : calls[i] = 0
    /\ pc \in {"loop", "done"} => credentials = ValidCredentials

\* The init response carried a key but no cookie, and the run has exited.
C14_Witness ==
    /\ pc = "exit1"
    /\ credentials = [publicKey |-> "KEY", cookie |-> Null]
    /\ Len(productNames) = 2

(***************************************************************************)
(* Properties of the retry-wrapper program                                 *)
(***************************************************************************)
\* C15 as claimed: every product name of the input yields a row in the written
\* CSV, also a product all of whose MAX_RETRY_ATTEMPTS attempts threw.
C15_AsClaimed ==
    retry.pc = "done" =>
        /\ Len(retry.csv) = Len(retry.productNames)
        /\ \A i \in 1..Len(retry.productNames) :
              retryLog[i].threw => retry.csv[i] = EmptyRow(retry.productNames[i])

\* C15, what the wrapper writes: one row per product whose last attempt
\* returned, in input order, and no row for a product whose
\* MAX_RETRY_ATTEMPTS attempts all threw.
C15_RowsOfReturnedFetches ==
    retry.pc = "done" =>
        Len(retry.csv) =
            Cardinality({i \in 1..Len(retry.productNames) : ~retryLog[i].threw})

\* Two products, the first given up after five failed attempts, the second
\* fetched: the CSV has one row.
C15_Witness ==
    /\ retry.pc = "done"
    /\ Len(retry.productNames) = 2
    /\ retryLog[1].threw /\ retryLog[1].fetches = MAX_RETRY_ATTEMPTS
    /\ ~retryLog[2].threw
    /\ Len(retry.csv) = 1

(***************************************************************************)
(* Properties of the Matcher                                               *)
(***************************************************************************)
\* The characters C16 has normalizeForComparison remove
ClaimedStripped == ParenChars \cup QuoteChars \cup CurlyQuoteChars \cup WhitespaceChars

Strip(str, removed) ==
    LET kept(c) == c \notin removed
    IN  SelectSeq(str, kept)

\* C16 as claimed: normalizeForComparison removes every ASCII and full-width
\* parenthesis, every straight and every curly single/double quote and all
\* whitespace (so strings that differ only in such characters normalize to the
\* same string).
C16_AsClaimed ==
    matcherOut.called =>
        matcherOut.normalized = Strip(matcherIn.str, ClaimedStripped)

\* C16, what the code removes: the parentheses, the straight quotes and the
\* whitespace, and nothing else; a curly quote stays.
C16_StripsStraightOnly ==
    matcherOut.called =>
        matcherOut.normalized =
            Strip(matcherIn.str, ParenChars \cup QuoteChars \cup WhitespaceChars)

\* "A" wrapped in curly double quotes was normalized, and the quotes are
\* still there.
C16_Witness ==
    /\ matcherOut.called
    /\ matcherIn.str = <<"LDQ", "A", "RDQ">>
    /\ matcherOut.normalized = <<"LDQ", "A", "RDQ">>

\* C17: findExactMatch returns the first candidate in list order whose
\* normalized name equals the normalized query when there is one, and null
\* exactly when the list is empty or holds no such candidate; what it returns
\* is always an exact match.
C17_FindExactMatch ==
    matcherOut.called =>
        LET hits == ExactIndexes(matcherIn.str, matcherIn.candidates)
        IN  /\ matcherOut.match = FirstExact(matcherIn.str, matcherIn.candidates)
            /\ matcherOut.match.isNull <=> hits = {}
            /\ Len(matcherIn.candidates) = 0 => matcherOut.match.isNull
            /\ ~matcherOut.match.isNull =>
                  /\ SameNormalized(matcherOut.match.prodName, matcherIn.str)
                  /\ \E k \in hits :
                        /\ matcherIn.candidates[k] = matcherOut.match
                        /\ \A j \in hits : k <= j

\* The query with full-width parentheses against a list whose first candidate
\* does not match and whose second does, in the half-width spelling.
C17_Witness ==
    /\ matcherOut.called
    /\ matcherIn.str = QParen
    /\ matcherIn.candidates = <<Product(<<"B">>, "X001"), Product(NHalf, "X002")>>
    /\ matcherOut.match = Product(NHalf, "X002")

(***************************************************************************)
(* Properties of the fallback bit and of the retry budget                  *)
(***************************************************************************)
\* The first FALLBACK_SEARCH_PREFIX_LENGTH characters of a name (the whole
\* name when it is not longer)
PrefixOf(name) == SubSeq(name, 1, Min(FALLBACK_SEARCH_PREFIX_LENGTH, Len(name)))

\* The step is a pass of item i
PassOf(i) == calls'[i] = calls[i] + 1

\* The step is a pass of item i whose full-name search came back empty
EmptyFullNamePass(i) ==
    /\ PassOf(i)
    /\ ~queue[i].triedFullName
    /\ last'.seen.kind = "ok" /\ last'.seen.count = 0

\* C18 as claimed: once triedFullName is set, no search of the item uses the
\* full name again.
C18_AsClaimed ==
    [][\A i \in Items :
        (PassOf(i) /\ queue[i].triedFullName) => last'.searchTerm # queue[i].name
      ]_vars

\* C18 as amended: triedFullName is set only by a full-name search that came
\* back empty and is never reset; while it is false every search of the item
\* uses the full name, and once it is true every search of the item, retries
\* after transport errors included, uses the first 8 characters of the name
\* (which is the name itself when the name has at most 8 characters).
C18_FallbackBitSurvives ==
    [][\A i \in Items :
        /\ queue[i].triedFullName => queue'[i].triedFullName
        /\ (~queue[i].triedFullName /\ queue'[i].triedFullName) => EmptyFullNamePass(i)
        /\ PassOf(i) =>
              /\ last'.idx = i
              /\ last'.viaPrefix = queue[i].triedFullName
              /\ last'.searchTerm = IF queue[i].triedFullName
                                    THEN PrefixOf(queue[i].name)
                                    ELSE queue[i].name
              /\ (queue[i].triedFullName /\ Len(queue[i].name) > FALLBACK_SEARCH_PREFIX_LENGTH)
                    => last'.searchTerm # queue[i].name
      ]_vars

\* The long query: its full-name search came back empty, its first prefix
\* search ended in a transport error, and the retry used the prefix again.
C18_Witness ==
    /\ last.idx # 0
    /\ queue[last.idx].name = QLong
    /\ queue[last.idx].triedFullName
    /\ last.viaPrefix
    /\ last.searchTerm = PrefixOf(QLong)
    /\ calls[last.idx] = 3 /\ errs[last.idx] = 1
    /\ queue[last.idx].status = "success"

QueueBackoff ==
    \A i \in Items :
        /\ calls[i] <= MAX_RETRY_ATTEMPTS
        /\ last.idx = i =>
              last.backoffMs = IF queue[i].status = "pending"
                               THEN 1000 * Pow2(calls[i] - 1)
                               ELSE 0

\* Retry wrapper: the k-th sleep of a product is INITIAL_RETRY_WAIT_MS x
\* 2^(k-1); every failed attempt but the MAX_RETRY_ATTEMPTS-th is followed by
\* one sleep, and a returned attempt by none.
WrapperBackoff ==
    \A i \in DOMAIN retryLog :
        /\ retryLog[i].fetches <= MAX_RETRY_ATTEMPTS
        /\ \A k \in 1..Len(retryLog[i].sleeps) :
              retryLog[i].sleeps[k] = INITIAL_RETRY_WAIT_MS * Pow2(k - 1)
        /\ Len(retryLog[i].sleeps) =
              IF i = retry.i THEN retryLog[i].fetches
              ELSE IF retryLog[i].fetches = 0 THEN 0
              ELSE retryLog[i].fetches - 1
        /\ (i < retry.i /\ retryLog[i].threw) =>
              /\ retryLog[i].fetches = MAX_RETRY_ATTEMPTS
              /\ Len(retryLog[i].sleeps) = MAX_RETRY_ATTEMPTS - 1

\* C20 as claimed: exponential backoff in both programs, and the search is
\* invoked at most MAX_RETRY_ATTEMPTS times per item.
C20_AsClaimed ==
    /\ QueueBackoff
    /\ WrapperBackoff
    /\ \A i \in DOMAIN retryLog : retryLog[i].searches <= MAX_RETRY_ATTEMPTS

\* C20 as amended: after the k-th failed pass of an item (k < 5) the engine
\* sleeps base x 2^(k-1) (base 1000 ms in the queue engine, 8000 ms in the
\* retry wrapper), no sleep follows the final failed attempt, and an item is
\* fetched at most MAX_RETRY_ATTEMPTS times: that is at most 5 search calls in
\* the queue engine, and at most 10 in the retry wrapper, where one attempt
\* issues the full-name search and, when it is empty, the prefix search.
C20_ExponentialBackoff ==
    /\ QueueBackoff
    /\ WrapperBackoff
    /\ \A i \in DOMAIN retryLog :
          /\ retryLog[i].searches >= retryLog[i].fetches
          /\ retryLog[i].searches <= 2 * retryLog[i].fetches

\* A product of the retry wrapper given up after five attempts, each of which
\* searched the full name and then the prefix: four sleeps of 8, 16, 32 and
\* 64 seconds, ten search calls.
C20_Witness ==
    /\ retry.pc = "done"
    /\ retryLog[1].threw
    /\ retryLog[1].sleeps = <<8000, 16000, 32000, 64000>>
    /\ retryLog[1].searches = 2 * MAX_RETRY_ATTEMPTS

(***************************************************************************)
(* Properties of the scheduling order and of the results map               *)
(***************************************************************************)
\* An item the engine has not touched: pending, never attempted
Untouched(i) ==
    /\ queue[i].status = "pending"
    /\ queue[i].attemptCount = 0
    /\ ~queue[i].triedFullName
    /\ calls[i] = 0

\* C21: at most one item is being resolved, and it is the first pending item
\* in input order: the item of the last pass has only terminal items before it
\* and only untouched pending items after it, an item that was attempted has
\* only terminal items before it, and so items become terminal in input order.
C21_FirstPendingInFlight ==
    /\ last.idx # 0 =>
          /\ \A j \in 1..(last.idx - 1) : Terminal(j)
          /\ \A j \in (last.idx + 1)..Len(queue) : Untouched(j)
    /\ \A i \in Items :
          ~Untouched(i) => \A j \in 1..(i - 1) : Terminal(j)
    /\ Cardinality({i \in Items : ~Untouched(i) /\ ~Terminal(i)}) <= 1

\* The first item is in its fourth pass, on the prefix, while the second item
\* has not been touched.
C21_Witness ==
    /\ Len(queue) = 2
    /\ last.idx = 1
    /\ queue[1].status = "pending"
    /\ queue[1].attemptCount = 3
    /\ queue[1].triedFullName
    /\ Untouched(2)

\* The pass of this step takes item i from pending to a terminal status
BecomesTerminal(i) ==
    /\ queue[i].status = "pending"
    /\ queue'[i].status \in {"success", "fail"}

\* C22 as claimed: the results map receives an entry for a query only in the
\* pass in which an item of that query becomes terminal, no entry exists for
\* an item that is still pending, and an entry is never overwritten.
C22_AsClaimed ==
    [][\A i \in Items :
          LET name == queue[i].name
          IN  /\ (name \in DOMAIN results' /\ name \notin DOMAIN results) =>
                    \E j \in Items : queue[j].name = name /\ BecomesTerminal(j)
              /\ queue'[i].status = "pending" => name \notin DOMAIN results'
              /\ name \in DOMAIN results =>
                    /\ name \in DOMAIN results'
                    /\ results'[name] = results[name]]_vars

\* What holds per queue item: results.set is called for an item exactly once,
\* in the pass in which the item becomes terminal.
C22_CommitOncePerItem ==
    [][\A i \in Items :
          /\ Len(stored'[i]) = IF Terminal(i)' THEN 1 ELSE 0
          /\ stored'[i] # stored[i] => BecomesTerminal(i)]_vars

\* The same name at both positions: the first item is resolved, the second is
\* still pending and the map already holds an entry under its name.
C22_Witness ==
    /\ Len(queue) = 2
    /\ queue[1].name = queue[2].name
    /\ queue[1].status = "success"
    /\ queue[2].status = "pending"
    /\ queue[2].name \in DOMAIN results

(***************************************************************************)
(* Properties of the speed-up                                              *)
(***************************************************************************)
\* The step is a reportSuccess call: it counts one success (or resets the
\* counter) and does not count a failure
SuccessReported ==
    /\ recentSuccesses' # recentSuccesses
    /\ ~RateLimitReported

\* The gate of the speed-up, read when reportSuccess is called: the success
\* being reported is at least the tenth since the counter was reset, and the
\* last adjustment is at least 15 s old
SpeedUpGate ==
    /\ recentSuccesses + 1 >= ADAPTATION_WINDOW
    /\ sinceAdjustment >= MIN_ADJUSTMENT_INTERVAL_MS

\* C23: the search-call delay decreases only in a reportSuccess call made with
\* the gate open; such a call sets the delay to max(floor, round(0.95 x
\* delay)), resets the success counter and stamps the adjustment time; a
\* reportSuccess call with the gate closed leaves delay and stamp alone; the
\* credential-fetch delay never decreases.
C23_SpeedUpDualGate ==
    [][/\ currentRequestDelay' < currentRequestDelay => SuccessReported /\ SpeedUpGate
       /\ (SuccessReported /\ SpeedUpGate) =>
             /\ currentRequestDelay' =
                   Max(MIN_REQUEST_DELAY, roundScaled(currentRequestDelay, SPEEDUP_FACTOR_PCT))
             /\ recentSuccesses' = 0
             /\ sinceAdjustment' = 0
       /\ (SuccessReported /\ ~SpeedUpGate) =>
             /\ currentRequestDelay' = currentRequestDelay
             /\ recentSuccesses' = recentSuccesses + 1
             /\ sinceAdjustment' = sinceAdjustment
       /\ currentCredentialDelay' >= currentCredentialDelay]_vars

\* After a rate-limit report raised the delay to 1500 ms, ten successes and
\* 15 s later the speed-up has lowered it to 1425 ms.
C23_Witness ==
    /\ currentRequestDelay = 1425
    /\ currentCredentialDelay = 1500
    /\ recentSuccesses = 0
    /\ recentFailures = 0
    /\ sinceAdjustment = 0

(***************************************************************************)
(* Properties of the session hand-out                                      *)
(***************************************************************************)
\* The time of a getSession call is its number (see createNewSession); the
\* last call was made at time handout.calls.

OldestSession ==
    CHOOSE k \in 1..Len(sessions) :
        /\ \A j \in 1..Len(sessions) : sessions[k].lastUsedAt <= sessions[j].lastUsedAt
        /\ \A j \in 1..(k - 1) : sessions[j].lastUsedAt > sessions[k].lastUsedAt

MaxDelayOf(class) ==
    IF class = "api" THEN MAX_REQUEST_DELAY ELSE MAX_CREDENTIAL_DELAY

\* C24: the first wait call of a class does not sleep; a later call stamps a
\* time that is at least the class's delay, as read when the call started,
\* after the previous stamp; no call sleeps longer than that delay, which is
\* at most the maximum of the class.
C24_AwaitTurnSpacing ==
    lastWait.class # "none" =>
        /\ lastWait.first => lastWait.slept = 0
        /\ ~lastWait.first => lastWait.gap >= lastWait.delay
        /\ lastWait.slept >= 0
        /\ lastWait.slept <= lastWait.delay
        /\ lastWait.delay <= MaxDelayOf(lastWait.class)
        /\ lastWait.class = "api" => lastApiRequestTime > 0
        /\ lastWait.class = "credential" => lastCredentialFetchTime > 0

\* A search-call wait halfway through a delay that a rate-limit report had
\* raised to 1500 ms: it slept the remaining 750 ms.
C24_Witness ==
    /\ lastWait.class = "api"
    /\ ~lastWait.first
    /\ lastWait.delay = 1500
    /\ lastWait.age = 750
    /\ lastWait.slept = 750
    /\ lastWait.gap = 1500

(***************************************************************************)
(* Properties of the session-pool program                                  *)
(***************************************************************************)
\* The step is the answer to one search call
SearchAnswered == batchLog'.searches = batchLog.searches + 1

\* C25: each search call makes at most one report to the rate limiter: a
\* rate-limit report exactly when the response status is 429 or 503, and the
\* call then throws; a success report exactly when the status is 2xx and the
\* body parsed; any other outcome throws and leaves the limiter as it was.
\* No other step of the program touches the limiter's counters and delays.
C25_OneReportPerSearch ==
    [][LET rateLimited == lastSearch'.status \in {429, 503}
           parsed == lastSearch'.status = 200 /\ lastSearch'.body # "unparsable"
       IN  IF SearchAnswered
           THEN /\ rateLimited =>
                      /\ RateLimitReported
                      /\ recentSuccesses' = 0
                      /\ currentRequestDelay' = backOff(currentRequestDelay, MAX_REQUEST_DELAY)
                      /\ lastSearch'.threw
                /\ parsed =>
                      /\ recentSuccesses' = recentSuccesses + 1
                      /\ recentFailures' = Max(0, recentFailures - 1)
                      /\ UNCHANGED <<currentRequestDelay, currentCredentialDelay>>
                /\ (~rateLimited /\ ~parsed) =>
                      /\ UNCHANGED rateVars
                      /\ lastSearch'.threw
           ELSE UNCHANGED rateVars
      ]_vars

\* After one rate-limited search and one parsed response, a search answered
\* with status 500 threw: the limiter still shows the delay the one rate-limit
\* report raised and the one success counted.
C25_Witness ==
    /\ lastSearch.status = 500
    /\ lastSearch.threw
    /\ batchLog.searches = 3
    /\ batchLog.rateLimits = 1
    /\ recentSuccesses = 1
    /\ recentFailures = 0
    /\ currentRequestDelay = backOff(GLOBAL_REQUEST_COOLDOWN_MS, MAX_REQUEST_DELAY)

\* C26 as claimed: fetchProduct of the session-pool program applies the exact
\* match also to a candidate list of one element: a row returned from such a
\* list carries a code only if the name it carries equals the query after
\* normalization.
C26_AsClaimed ==
    (batchLog.returned /\ lastSearch.count = 1) =>
        LET row == batch.results[batchLog.i]
        IN  row.prodRegCode # "" =>
               SameNormalized(row.prodName, batch.productNames[batchLog.i])

\* The search for "A（B）" was answered with the lone record "ABCDEFGHI", and
\* the row of "A（B）" carries that record's name and code.
C26_Witness ==
    /\ batchLog.returned
    /\ batchLog.i = 1
    /\ lastSearch.count = 1
    /\ lastSearch.term = QParen
    /\ batch.productNames[1] = QParen
    /\ batch.results = <<[prodName |-> QLong, prodRegCode |-> "X003"]>>

\* The init call of the session just built failed in transport, or its body
\* did not parse
InitTransportFailure == handout.fetched /\ handout.init.kind = "reject"
InitParseFailure ==
    handout.fetched /\ handout.init.kind = "response" /\ handout.init.body = "unparsable"

\* The last search call was made with the session the program holds
SearchedWithSession == lastSearch.status # -1 /\ batch.pc \in {"getSession", "done"}

OnlyRateLimited ==
    /\ lastSearch'.status \in {429, 503}
    /\ batchLog'.rateLimits = batchLog'.searches

\* The product being fetched is given up with this answer, after
\* MAX_RETRY_ATTEMPTS fetchProduct calls of one search each, and its row with
\* an empty code is appended in its input position
GivenUpInPosition ==
    /\ batchLog'.gaveUp
    /\ batchLog'.fetches = MAX_RETRY_ATTEMPTS
    /\ batchLog'.searches = MAX_RETRY_ATTEMPTS
    /\ batch'.results = Append(batch.results, EmptyRow(batch.productNames[batch.i]))
    /\ Len(batch'.results) = batch.i

\* C30 as claimed: a product whose every search is rate-limited is given up
\* after MAX_RETRY_ATTEMPTS calls of fetchProduct and recorded with an empty
\* code in its input position, and each of those responses raised both delays.
C30_AsClaimed ==
    [][(SearchAnswered /\ OnlyRateLimited) =>
          /\ batch.attempt >= MAX_RETRY_ATTEMPTS => GivenUpInPosition
          /\ batch.attempt < MAX_RETRY_ATTEMPTS => ~batchLog'.gaveUp
          /\ currentRequestDelay' > currentRequestDelay
          /\ currentCredentialDelay' > currentCredentialDelay
      ]_vars

\* C30 as amended: a search that throws consumes one attempt of the retry
\* budget whether the cause is a rate-limit response or another failure; a
\* product whose every search is rate-limited is given up after
\* MAX_RETRY_ATTEMPTS calls of fetchProduct and recorded with an empty code in
\* its input position; each of those responses was reported to the limiter
\* once, which raised each delay that was still below its maximum and left a
\* delay at its maximum there.
C30_RateLimitConsumesAttempt ==
    [][SearchAnswered =>
          /\ lastSearch'.threw =>
                IF batch.attempt < MAX_RETRY_ATTEMPTS
                THEN /\ batch'.attempt = batch.attempt + 1
                     /\ batch'.i = batch.i
                     /\ batch'.results = batch.results
                     /\ ~batchLog'.gaveUp
                ELSE /\ batchLog'.gaveUp
                     /\ batchLog'.fetches = MAX_RETRY_ATTEMPTS
                     /\ batch'.results =
                           Append(batch.results, EmptyRow(batch.productNames[batch.i]))
          /\ OnlyRateLimited =>
                /\ lastSearch'.threw
                /\ batch.attempt >= MAX_RETRY_ATTEMPTS => GivenUpInPosition
                /\ RateLimitReported
                /\ currentRequestDelay' = backOff(currentRequestDelay, MAX_REQUEST_DELAY)
                /\ currentCredentialDelay' =
                      backOff(currentCredentialDelay, MAX_CREDENTIAL_DELAY)
                /\ currentRequestDelay < MAX_REQUEST_DELAY =>
                      currentRequestDelay' > currentRequestDelay
                /\ currentCredentialDelay < MAX_CREDENTIAL_DELAY =>
                      currentCredentialDelay' > currentCredentialDelay
      ]_vars

\* The first product got its code from one search; each of the five searches
\* of the second was rate-limited: it is recorded second with an empty code,
\* and the search-call delay, which the fourth response had raised to its
\* maximum, was left there by the fifth.
C30_Witness ==
    /\ batch.pc = "done"
    /\ Len(batch.results) = 2
    /\ batch.results[1].prodRegCode = "X001"
    /\ batch.results[2] = EmptyRow(batch.productNames[2])
    /\ batchLog.i = 2
    /\ batchLog.gaveUp
    /\ batchLog.fetches = MAX_RETRY_ATTEMPTS
    /\ batchLog.rateLimits = MAX_RETRY_ATTEMPTS
    /\ currentRequestDelay = MAX_REQUEST_DELAY
    /\ currentCredentialDelay < MAX_CREDENTIAL_DELAY

(***************************************************************************)
(* Properties of the similarity match                                      *)
(***************************************************************************)
\* The length of the longest common prefix of two names after the parentheses
\* and quotes are removed from both
CommonNormalizedPrefix(a, b) ==
    LET na == normalizeForComparisonOfWrapper(a)
        nb == normalizeForComparisonOfWrapper(b)
        common == {n \in 0..Min(Len(na), Len(nb)) : SubSeq(na, 1, n) = SubSeq(nb, 1, n)}
    IN  CHOOSE n \in common : \A m \in common : m <= n

\* Candidate k is of maximal score for the query, and of the shortest name
\* among the candidates of maximal score
BestAt(query, list, k) ==
    /\ \A j \in 1..Len(list) :
          CommonNormalizedPrefix(query, list[j].prodName)
             <= CommonNormalizedPrefix(query, list[k].prodName)
    /\ \A j \in 1..Len(list) :
          CommonNormalizedPrefix(query, list[j].prodName)
             = CommonNormalizedPrefix(query, list[k].prodName)
          => Len(list[k].prodName) <= Len(list[j].prodName)

\* C31: for a non-empty list of records findBestMatch returns the earliest
\* candidate in list order among those that have the maximal common
\* normalized prefix with the query and, among these, the shortest name; a
\* list of one candidate is returned as is.
C31_FindBestMatch ==
    matcherOut.called =>
        LET list == matcherIn.candidates
            query == matcherIn.str
        IN  /\ \E k \in 1..Len(list) :
                  /\ matcherOut.match = list[k]
                  /\ BestAt(query, list, k)
                  /\ \A j \in 1..(k - 1) : ~BestAt(query, list, j)
            /\ Len(list) = 1 => matcherOut.match = list[1]

\* For the query "A（B）" the list "ABA", "A(B)", "AB": all three score 2, and
\* the last, which has the shortest name, is returned.
C31_Witness ==
    /\ matcherOut.called
    /\ matcherIn.str = QParen
    /\ matcherIn.candidates = <<Product(<<"A", "B", "A">>, "X001"), Product(NHalf, "X001"),
                                Product(<<"A", "B">>, "X002")>>
    /\ matcherOut.match = Product(<<"A", "B">>, "X002")

(***************************************************************************)
(* Properties of the output of the queue engine                            *)
(***************************************************************************)
\* C32 as claimed: when the results are ordered, the code of output row i is
\* the code that the terminal pass of queue item i produced, also when the
\* name of item i occurs at another position of the input.
C32_AsClaimed ==
    pc = "done" =>
        \A i \in Items :
            /\ Len(stored[i]) = 1
            /\ output[i].prodRegCode = stored[i][1].prodRegCode

\* The same name at both positions: the terminal pass of the first item
\* produced the code X001, that of the second an empty code, and output row 1
\* carries the empty code.
C32_Witness ==
    /\ pc = "done"
    /\ Len(queue) = 2
    /\ queue[1].name = queue[2].name
    /\ stored[1] = <<[prodName |-> NHalf, prodRegCode |-> "X001"]>>
    /\ stored[2][1].prodRegCode = ""
    /\ output[1].prodRegCode = ""
    /\ output[2].prodRegCode = ""

\* C33 as claimed: when the queue is processed, an item has status 'success'
\* exactly if the result recorded under its name has a code and 'fail' exactly
\* if that code is empty, and the summary's count of successfully fetched rows
\* is the number of items with status 'success'.
C33_AsClaimed ==
    pc = "done" =>
        /\ \A i \in Items :
              /\ queue[i].status = "success" <=> results[queue[i].name].prodRegCode # ""
              /\ queue[i].status = "fail" <=> results[queue[i].name].prodRegCode = ""
        /\ countResults(output).successCount = countStatus(queue, "success")

\* One product, matched exactly by a record that has no prodRegCode: the item
\* has status 'success', its row an empty code, and the summary counts no
\* successfully fetched row.
C33_Witness ==
    /\ pc = "done"
    /\ Len(queue) = 1
    /\ queue[1].status = "success"
    /\ results[queue[1].name] = [prodName |-> NHalf, prodRegCode |-> ""]
    /\ output = <<[prodName |-> NHalf, prodRegCode |-> ""]>>
    /\ countResults(output) = [successCount |-> 0, failedCount |-> 1]
    /\ countStatus(queue, "success") = 1

(***************************************************************************)
(* Properties of the coupling of the two delay classes                     *)
(***************************************************************************)
\* after is before times 1.5, to the nearest millisecond, or the ceiling if
\* that is lower
BackedOff(before, after, ceiling) ==
    IF 3 * before >= 2 * ceiling
    THEN after = ceiling
    ELSE 2 * after - 3 * before \in {0, 1}

\* C34: every reportRateLimit multiplies the search-call delay and the
\* credential-fetch delay by 1.5, each clamped to its own ceiling; a
\* reportSuccess leaves the credential-fetch delay as it is, whether or not it
\* lowers the search-call delay; the credential-fetch delay never decreases.
C34_AsymmetricCoupling ==
    [][/\ RateLimitReported =>
             /\ BackedOff(currentRequestDelay, currentRequestDelay', MAX_REQUEST_DELAY)
             /\ BackedOff(currentCredentialDelay, currentCredentialDelay',
                          MAX_CREDENTIAL_DELAY)
       /\ SuccessReported => currentCredentialDelay' = currentCredentialDelay
       /\ currentRequestDelay' < currentRequestDelay => SuccessReported
       /\ currentCredentialDelay' >= currentCredentialDelay]_vars

\* Two rate-limit reports raised both delays to 2250 ms; ten successes and
\* 15 s later the search-call delay is down to 2138 ms and the
\* credential-fetch delay still at 2250 ms.
C34_Witness ==
    /\ currentCredentialDelay = 2250
    /\ currentRequestDelay = 2138
    /\ recentSuccesses = 0
    /\ recentFailures = 0

(***************************************************************************)
(* Properties of the rotation                                              *)
(***************************************************************************)
\* The call (1-based) of the last hand-out of pool position k before call c,
\* 0 if there was none
PreviousHandout(k, c) ==
    LET earlier == {j \in 1..(c - 1) : handout.order[j] = k}
    IN  IF earlier = {} THEN 0 ELSE CHOOSE j \in earlier : \A h \in earlier : h <= j

\* C37: sequential getSession calls hand out the sessions in pool order
\* cyclically, starting with the first created session once the pool is full;
\* every window of maxSessions consecutive hand-outs holds each session
\* exactly once; the session handed out by a call on a full pool is the one
\* whose previous hand-out, creation included, is the earliest.
C37_RotationFairness ==
    LET order == handout.order
        m == maxSessions
    IN  /\ Len(order) = handout.calls
        /\ \A c \in 1..Len(order) :
              /\ order[c] \in 1..Len(sessions)
              /\ c > 1 => order[c] = (order[c - 1] % m) + 1
              /\ c = m + 1 => order[c] = 1
              /\ c >= m => {order[j] : j \in (c - m + 1)..c} = 1..m
              /\ c > m =>
                    \A k \in 1..m : PreviousHandout(order[c], c) <= PreviousHandout(k, c)
        /\ handout.calls > 0 => handout.session = sessions[order[Len(order)]]

\* A pool of three sessions after six calls: the second round has handed out
\* the first, the second and the third session again, in this order.
C37_Witness ==
    /\ maxSessions = 3
    /\ Len(sessions) = 3
    /\ handout.order = <<1, 2, 3, 1, 2, 3>>
    /\ ~handout.fetched
    /\ handout.session = sessions[3]

(***************************************************************************)
(* Properties under overlapping callers                                    *)
(***************************************************************************)
\* C35 as claimed: also when getSession calls overlap, the pool never holds
\* more than maxSessions sessions and never issues more than maxSessions
\* credential fetches.
C35_AsClaimed ==
    /\ Len(sessions) <= maxSessions
    /\ handout.fetches <= maxSessions

\* A pool of capacity one: the second getSession call started while the first
\* was suspended in its credential fetch; both fetched, and the pool holds two
\* sessions.
C35_Witness ==
    /\ maxSessions = 1
    /\ Len(sessions) = 2
    /\ handout.fetches = 2
    /\ inflight = NoneInFlight

\* C36 as claimed: also when several callers are inside waitForApiRequest at
\* the same time, a stamp of lastApiRequestTime that is not the first is at
\* least the search-call delay (as its caller read it) after the stamp before
\* it.
C36_AsClaimed ==
    (lastWait.class = "api" /\ ~lastWait.first) => lastWait.gap >= lastWait.delay

\* Two callers entered waitForApiRequest right after the same stamp and slept
\* the full delay of 1000 ms each; the first has stamped and returned, and the
\* second has stamped at the same instant.
C36_Witness ==
    /\ lastWait.class = "api"
    /\ ~lastWait.first
    /\ lastWait.delay = GLOBAL_REQUEST_COOLDOWN_MS
    /\ lastWait.age = 0
    /\ lastWait.slept = GLOBAL_REQUEST_COOLDOWN_MS
    /\ lastWait.gap = 0
    /\ \A c \in WaitCallers : waiters.of[c].pc = "idle"

====
